---- MODULE Spec2Model ----
(***************************************************************************)
(* Quote calculation engine of hardware-quote-demo (src/app.py, with the   *)
(* template-driven variant src/app_backup.py).                              *)
(*                                                                         *)
(* Numbers: Python floats are modelled as exact rationals [n, d] in lowest *)
(* terms (d > 0); quantities and counts are integers.  An Optional value   *)
(* (Python None or a value) is a sequence of length 0 or 1.                *)
(***************************************************************************)
EXTENDS Integers, Sequences, FiniteSets, TLC

VARIABLES
    pc,             \* position of the modelled call: "call" before, "done" after
    tiers,          \* bundle.quantity_tiers
    qty,            \* requested quantity
    multiplier,     \* find_multiplier(...)[0]
    matched_tier,   \* find_multiplier(...)[1]
    totals,         \* material_total, process_total, purchased_total, packaging_total
    params,         \* overhead_pct, tax_pct, margin_pct, pricing_mode, shipping_per_order
    summary,        \* the rolled-up figures (subtotal .. unit_price)
    engine,         \* "app" (src/app.py) or "app_backup" (src/app_backup.py)
    process_steps,  \* part["process_steps"] / template["default_processes"]
    user_inputs,    \* app_backup only: process code -> enabled, basis, minutes
    process_cost,   \* compute_process_costs(...)[0]
    process_rows,   \* compute_process_costs(...)[1]
    product,        \* the selected product: bom_lines, units_per_carton
    overrides,      \* override widgets per BOM line index: enabled, selected, pieces
    bom_rows,       \* render_quote_tab: bom_rows
    process_breakdown,   \* render_quote_tab: process_breakdown
    alternatives_export, \* render_quote_tab: alternatives_export
    warnings,       \* st.warning messages of the run, in order
    infos,          \* st.info messages of the BOM loop, in order
    layout_sheet,   \* compute_sheet_layout: sheet_option
    layout_part,    \* compute_sheet_layout / evaluate_sheet_options: part
    layout_override,     \* compute_sheet_layout: pieces_override
    layout,         \* the dict returned by compute_sheet_layout
    candidate_sheets,    \* evaluate_sheet_options: sheet_options
    sheet_rows,     \* evaluate_sheet_options(...)[0]
    recommended_row,     \* evaluate_sheet_options(...)[1]
    quote_lines,    \* st.session_state["quote_lines"], the quote cart
    template,       \* app_backup only: material_code, weight_kg_per_unit, default_processes
    scrap_rate,     \* app_backup only: calculate_quote's scrap_rate
    packaging_per_piece  \* app_backup only: calculate_quote's packaging_per_piece

tierVars == <<tiers, qty, multiplier, matched_tier>>
rollupVars == <<totals, params, summary>>
processVars == <<engine, process_steps, user_inputs, process_cost, process_rows>>
quoteVars == <<product, overrides, bom_rows, process_breakdown, alternatives_export,
               warnings, infos>>
sheetVars == <<layout_sheet, layout_part, layout_override, layout, candidate_sheets,
               sheet_rows, recommended_row>>
cartVars == <<quote_lines>>
templateVars == <<template, scrap_rate, packaging_per_piece>>
vars == <<pc, tierVars, rollupVars, processVars, quoteVars, sheetVars, cartVars,
          templateVars>>

(* ------------------------------ bounds --------------------------------- *)
MaxQty == 2
MaxTiers == 2
MaxSteps == 3
MaxBomLines == 2
MaxSheets == 3
MaxCart == 2

(* --------------------------- exact rationals --------------------------- *)
Abs(x) == IF x < 0 THEN -x ELSE x

RECURSIVE GCD(_, _)
GCD(a, b) == IF b = 0 THEN a ELSE GCD(b, a % b)

R(n, d) ==
    LET g == GCD(Abs(n), d)
    IN  [n |-> n \div g, d |-> d \div g]

Zero == [n |-> 0, d |-> 1]
One == [n |-> 1, d |-> 1]
I(k) == [n |-> k, d |-> 1]

RAdd(a, b) ==
    LET g == GCD(a.d, b.d)
    IN  R(a.n * (b.d \div g) + b.n * (a.d \div g), (a.d \div g) * b.d)
RSub(a, b) == RAdd(a, [n |-> -b.n, d |-> b.d])
RMul(a, b) ==
    LET g1 == GCD(Abs(a.n), b.d)
        g2 == GCD(Abs(b.n), a.d)
    IN  R((a.n \div g1) * (b.n \div g2), (a.d \div g2) * (b.d \div g1))
RDiv(a, b) ==
    IF b.n > 0 THEN RMul(a, [n |-> b.d, d |-> b.n])
               ELSE RMul(a, [n |-> -b.d, d |-> -b.n])
RLt(a, b) == RSub(a, b).n < 0
RLe(a, b) == RSub(a, b).n <= 0

(* --------------------------- find_multiplier --------------------------- *)
\* sorted(tiers, key=lambda t: t["min_qty"]): Python's sort is stable, so a
\* tier is placed after the tiers already present with an equal key.
RECURSIVE InsertByMinQty(_, _)
InsertByMinQty(sorted, tier) ==
    IF sorted = <<>> THEN <<tier>>
    ELSE IF tier.min_qty < Head(sorted).min_qty THEN <<tier>> \o sorted
    ELSE <<Head(sorted)>> \o InsertByMinQty(Tail(sorted), tier)

RECURSIVE SortedByMinQty(_)
SortedByMinQty(ts) ==
    IF ts = <<>> THEN <<>>
    ELSE InsertByMinQty(SortedByMinQty(SubSeq(ts, 1, Len(ts) - 1)), ts[Len(ts)])

\* qty >= min_q and (max_q is None or qty <= max_q)
TierContains(tier, q) ==
    q >= tier.min_qty /\ (tier.max_qty = <<>> \/ q <= tier.max_qty[1])

\* the for loop of find_multiplier: the last containing tier is kept
RECURSIVE ScanTiers(_, _, _)
ScanTiers(sorted, q, candidate) ==
    IF sorted = <<>> THEN candidate
    ELSE ScanTiers(Tail(sorted), q,
                   IF TierContains(Head(sorted), q) THEN <<Head(sorted)>> ELSE candidate)

\* mutant: the scan stops at the first containing tier
RECURSIVE ScanTiersFirst(_, _)
ScanTiersFirst(sorted, q) ==
    IF sorted = <<>> THEN <<>>
    ELSE IF TierContains(Head(sorted), q) THEN <<Head(sorted)>>
    ELSE ScanTiersFirst(Tail(sorted), q)

find_multiplier_first(ts, q) ==
    LET sorted == SortedByMinQty(ts)
        scanned == ScanTiersFirst(sorted, q)
        candidate == IF scanned = <<>> /\ ts # <<>> THEN <<sorted[1]>> ELSE scanned
    IN  IF candidate = <<>> THEN <<One, <<>>>>
        ELSE <<candidate[1].multiplier, candidate>>

\* mutant: no fallback to the smallest tier
find_multiplier_nofallback(ts, q) ==
    LET candidate == ScanTiers(SortedByMinQty(ts), q, <<>>)
    IN  IF candidate = <<>> THEN <<One, <<>>>>
        ELSE <<candidate[1].multiplier, candidate>>

\* returns <<multiplier, Optional tier>>
find_multiplier(ts, q) ==
    LET sorted == SortedByMinQty(ts)
        scanned == ScanTiers(sorted, q, <<>>)
        candidate == IF scanned = <<>> /\ ts # <<>> THEN <<sorted[1]>> ELSE scanned
    IN  IF candidate = <<>> THEN <<One, <<>>>>
        ELSE <<candidate[1].multiplier, candidate>>

(* ------------------------------ rollup ---------------------------------- *)
\* mutant: the gross-margin branch computed like a markup
PriceFromCostAsMarkup(total_cost, margin_pct, pricing_mode) ==
    [price |-> RMul(total_cost, RAdd(One, margin_pct)), divisor |-> <<>>]

\* mutant: the clamp guards only the division by zero, not a negative divisor
PriceFromCostZeroGuardOnly(total_cost, margin_pct, pricing_mode) ==
    IF pricing_mode = "gross_margin"
    THEN IF margin_pct # One
         THEN [price |-> RDiv(total_cost, RSub(One, margin_pct)),
               divisor |-> <<RSub(One, margin_pct)>>]
         ELSE [price |-> total_cost, divisor |-> <<>>]
    ELSE [price |-> RMul(total_cost, RAdd(One, margin_pct)), divisor |-> <<>>]

\* lines 604-607: price from cost; divisor is the divisor of the division
\* that was evaluated, if one was
PriceFromCost(total_cost, margin_pct, pricing_mode) ==
    IF pricing_mode = "gross_margin"
    THEN IF RLt(margin_pct, One)
         THEN [price |-> RDiv(total_cost, RSub(One, margin_pct)),
               divisor |-> <<RSub(One, margin_pct)>>]
         ELSE [price |-> total_cost, divisor |-> <<>>]
    ELSE [price |-> RMul(total_cost, RAdd(One, margin_pct)), divisor |-> <<>>]

\* mutant: tax computed on the subtotal instead of the pre-tax amount
TaxOnSubtotal(subtotal, pre_tax, tax_pct) == RMul(subtotal, tax_pct)

\* line 601: tax = pre_tax * tax_pct
TaxOf(subtotal, pre_tax, tax_pct) == RMul(pre_tax, tax_pct)

\* mutant: the tier multiplier applied a second time
ApplyTierTwice(price, mult) == RMul(RMul(price, mult), mult)

\* line 610: final_price_total *= multiplier
ApplyTier(price, mult) == RMul(price, mult)

\* mutant: unit price without the zero-quantity guard's value
UnitPriceUnguarded(final_price_total, q) ==
    IF q # 0 THEN RDiv(final_price_total, I(q)) ELSE final_price_total

\* line 611: unit_price = final_price_total / qty if qty else 0.0
UnitPrice(final_price_total, q) ==
    IF q # 0 THEN RDiv(final_price_total, I(q)) ELSE Zero

\* lines 597-611 of render_quote_tab (calculate_quote lines 129-144 in the
\* template-driven variant, where purchased_total is absent)
QuoteRollup(tot, par, ts, q) ==
    LET shipping_cost == par.shipping_per_order
        subtotal == RAdd(RAdd(RAdd(RAdd(tot.material_total, tot.process_total),
                                   tot.purchased_total), tot.packaging_total),
                         shipping_cost)
        overhead == RMul(subtotal, par.overhead_pct)
        pre_tax == RAdd(subtotal, overhead)
        tax == TaxOf(subtotal, pre_tax, par.tax_pct)
        total_cost == RAdd(pre_tax, tax)
        priced == PriceFromCost(total_cost, par.margin_pct, par.pricing_mode)
        found == find_multiplier(ts, q)
        final_price_total == ApplyTier(priced.price, found[1])
    IN  [shipping_cost |-> shipping_cost,
         subtotal |-> subtotal,
         overhead |-> overhead,
         pre_tax |-> pre_tax,
         tax |-> tax,
         total_cost |-> total_cost,
         price_before_tier |-> priced.price,
         margin_divisor |-> priced.divisor,
         multiplier |-> found[1],
         matched_tier |-> found[2],
         final_price_total |-> final_price_total,
         unit_price |-> UnitPrice(final_price_total, q)]

(* ------------------------ compute_process_costs ------------------------- *)
\* the process catalog (bundle.processes keyed by code)
ProcessesMap ==
    "CUT" :> [name |-> "Laser cut", unit_rate_per_min |-> I(2), setup_cost |-> I(10)]
    @@ "BEND" :> [name |-> "Bending", unit_rate_per_min |-> R(3, 2), setup_cost |-> Zero]

\* processes_map.get(code, {}) followed by meta.get(field, default)
ProcessMeta(processes_map, code) ==
    IF code \in DOMAIN processes_map
    THEN processes_map[code]
    ELSE [name |-> code, unit_rate_per_min |-> Zero, setup_cost |-> Zero]

\* mutant: the run time is not multiplied by the quantity
StepRowNoQty(step, processes_map, q, part_code) ==
    LET meta == ProcessMeta(processes_map, step.process_code)
        runtime_cost == RMul(step.minutes_per_unit, meta.unit_rate_per_min)
    IN  [part_code |-> part_code,
         process_code |-> step.process_code,
         name |-> meta.name,
         minutes_per_unit |-> step.minutes_per_unit,
         rate_per_min |-> meta.unit_rate_per_min,
         qty |-> q,
         runtime_cost |-> runtime_cost,
         setup_cost |-> meta.setup_cost,
         total_cost |-> RAdd(runtime_cost, meta.setup_cost)]

\* app.py lines 75-95: the row of one enabled step
StepRow(step, processes_map, q, part_code) ==
    LET meta == ProcessMeta(processes_map, step.process_code)
        runtime_cost == RMul(RMul(step.minutes_per_unit, meta.unit_rate_per_min), I(q))
    IN  [part_code |-> part_code,
         process_code |-> step.process_code,
         name |-> meta.name,
         minutes_per_unit |-> step.minutes_per_unit,
         rate_per_min |-> meta.unit_rate_per_min,
         qty |-> q,
         runtime_cost |-> runtime_cost,
         setup_cost |-> meta.setup_cost,
         total_cost |-> RAdd(runtime_cost, meta.setup_cost)]

\* mutant: a step with an unknown process code is skipped without a row
RECURSIVE ProcessLoopSkipUnknown(_, _, _, _, _, _)
ProcessLoopSkipUnknown(steps, processes_map, q, part_code, total, breakdown) ==
    IF steps = <<>> THEN <<total, breakdown>>
    ELSE IF ~Head(steps).enabled \/ Head(steps).process_code \notin DOMAIN processes_map
    THEN ProcessLoopSkipUnknown(Tail(steps), processes_map, q, part_code, total, breakdown)
    ELSE LET row == StepRow(Head(steps), processes_map, q, part_code)
         IN  ProcessLoopSkipUnknown(Tail(steps), processes_map, q, part_code,
                                    RAdd(total, row.total_cost), Append(breakdown, row))

compute_process_costs_skip_unknown(steps, processes_map, q, part_code) ==
    ProcessLoopSkipUnknown(steps, processes_map, q, part_code, Zero, <<>>)

\* app.py lines 72-95: the for loop, with its accumulators total and breakdown
RECURSIVE ProcessLoop(_, _, _, _, _, _)
ProcessLoop(steps, processes_map, q, part_code, total, breakdown) ==
    IF steps = <<>> THEN <<total, breakdown>>
    ELSE IF ~Head(steps).enabled
    THEN ProcessLoop(Tail(steps), processes_map, q, part_code, total, breakdown)
    ELSE LET row == StepRow(Head(steps), processes_map, q, part_code)
         IN  ProcessLoop(Tail(steps), processes_map, q, part_code,
                         RAdd(total, row.total_cost), Append(breakdown, row))

\* app.py lines 64-96; returns <<total, breakdown>>
compute_process_costs(steps, processes_map, q, part_code) ==
    ProcessLoop(steps, processes_map, q, part_code, Zero, <<>>)

\* app_backup.py lines 71-75: user_inputs.get(code, {}) and its defaults
UserInput(inputs, proc) ==
    IF proc.process_code \in DOMAIN inputs
    THEN inputs[proc.process_code]
    ELSE [enabled |-> TRUE, basis |-> "per_hour", minutes |-> proc.minutes]

\* app_backup.py lines 74-98: the row of one priced template process
BackupRow(proc, processes_map, q, ui) ==
    LET meta == processes_map[proc.process_code]
        runtime_cost == IF ui.basis = "fixed" THEN Zero
                        ELSE RMul(RMul(ui.minutes, meta.unit_rate_per_min), I(q))
    IN  [process_code |-> proc.process_code,
         name |-> meta.name,
         basis |-> ui.basis,
         minutes_per_unit |-> ui.minutes,
         rate_per_min |-> meta.unit_rate_per_min,
         qty |-> IF ui.basis # "fixed" THEN q ELSE 0,
         runtime_cost |-> runtime_cost,
         setup_cost |-> meta.setup_cost,
         total_cost |-> RAdd(runtime_cost, meta.setup_cost)]

\* app_backup.py lines 66-98: the for loop
RECURSIVE BackupProcessLoop(_, _, _, _, _, _)
BackupProcessLoop(procs, processes_map, q, inputs, total, breakdown) ==
    IF procs = <<>> THEN <<total, breakdown>>
    ELSE IF Head(procs).process_code \notin DOMAIN processes_map
    THEN BackupProcessLoop(Tail(procs), processes_map, q, inputs, total, breakdown)
    ELSE IF ~UserInput(inputs, Head(procs)).enabled
    THEN BackupProcessLoop(Tail(procs), processes_map, q, inputs, total, breakdown)
    ELSE LET row == BackupRow(Head(procs), processes_map, q, UserInput(inputs, Head(procs)))
         IN  BackupProcessLoop(Tail(procs), processes_map, q, inputs,
                               RAdd(total, row.total_cost), Append(breakdown, row))

\* app_backup.py lines 58-99; returns <<total, breakdown>>
backup_compute_process_costs(template_processes, processes_map, q, inputs) ==
    BackupProcessLoop(template_processes, processes_map, q, inputs, Zero, <<>>)

(* ------------------- app_backup.py: calculate_quote --------------------- *)
\* app_backup.py lines 45-50: the for loop over the tiers sorted by min_qty
RECURSIVE BackupScanTiers(_, _, _)
BackupScanTiers(sorted, q, candidate) ==
    IF sorted = <<>> THEN candidate
    ELSE LET tier == Head(sorted)
             min_q == tier.min_qty
             max_q == tier.max_qty
         IN  IF q >= min_q /\ (max_q = <<>> \/ q <= max_q[1])
             THEN BackupScanTiers(Tail(sorted), q, <<tier>>)
             ELSE BackupScanTiers(Tail(sorted), q, candidate)

\* mutant: the variant keeps the first containing tier (a break in the loop)
RECURSIVE BackupScanTiersFirst(_, _, _)
BackupScanTiersFirst(sorted, q, candidate) ==
    IF sorted = <<>> THEN candidate
    ELSE LET tier == Head(sorted)
             min_q == tier.min_qty
             max_q == tier.max_qty
         IN  IF q >= min_q /\ (max_q = <<>> \/ q <= max_q[1])
             THEN <<tier>>
             ELSE BackupScanTiersFirst(Tail(sorted), q, candidate)

backup_find_multiplier_first(ts, q) ==
    LET looped == BackupScanTiersFirst(SortedByMinQty(ts), q, <<>>)
        candidate == IF looped = <<>> /\ ts # <<>>
                     THEN <<SortedByMinQty(ts)[1]>> ELSE looped
    IN  IF candidate = <<>> THEN <<One, <<>>>>
        ELSE <<candidate[1].multiplier, candidate>>

\* app_backup.py lines 43-55; returns <<multiplier, Optional tier>>
backup_find_multiplier(ts, q) ==
    LET looped == BackupScanTiers(SortedByMinQty(ts), q, <<>>)
        candidate == IF looped = <<>> /\ ts # <<>>
                     THEN <<SortedByMinQty(ts)[1]>> ELSE looped
    IN  IF candidate = <<>> THEN <<One, <<>>>>
        ELSE <<candidate[1].multiplier, candidate>>

\* the material catalog of the template-driven variant, keyed by code
BackupMaterialsMap ==
    "SS" :> [price_per_kg |-> I(4)]
    @@ "AL" :> [price_per_kg |-> R(5, 2)]

\* app_backup.py lines 117-118: materials_map.get(code, {}).get("price_per_kg", 0.0)
BackupMaterialPrice(materials_map, code) ==
    IF code \in DOMAIN materials_map THEN materials_map[code].price_per_kg ELSE Zero

\* app_backup.py lines 129-159: the rollup of calculate_quote on its direct costs
BackupSummary(material_cost, proc_cost, packaging_cost, par, ts, q) ==
    LET shipping_cost == par.shipping_per_order
        subtotal == RAdd(RAdd(RAdd(material_cost, proc_cost), packaging_cost),
                         shipping_cost)
        overhead == RMul(subtotal, par.overhead_pct)
        pre_tax == RAdd(subtotal, overhead)
        tax == RMul(pre_tax, par.tax_pct)
        total_cost == RAdd(pre_tax, tax)
        price == IF par.pricing_mode = "gross_margin"
                 THEN IF RLt(par.margin_pct, One)
                      THEN RDiv(total_cost, RSub(One, par.margin_pct))
                      ELSE total_cost
                 ELSE RMul(total_cost, RAdd(One, par.margin_pct))
        found == backup_find_multiplier(ts, q)
        final_price_total == RMul(price, found[1])
    IN  <<[material_cost |-> material_cost,
           process_cost |-> proc_cost,
           packaging_cost |-> packaging_cost,
           shipping_cost |-> shipping_cost,
           overhead |-> overhead,
           tax |-> tax,
           subtotal |-> subtotal,
           pre_tax |-> pre_tax,
           total_cost |-> total_cost,
           final_price_total |-> final_price_total,
           unit_price |-> IF q # 0 THEN RDiv(final_price_total, I(q)) ELSE Zero,
           multiplier |-> found[1]],
          found[2]>>

\* app_backup.py lines 102-160; returns <<summary, process_breakdown, matched_tier>>
calculate_quote(tpl, q, scrap, par, ppp, materials_map, processes_map, ts, process_inputs) ==
    LET material_price == BackupMaterialPrice(materials_map, tpl.material_code)
        material_cost == RMul(RMul(RMul(I(q), tpl.weight_kg_per_unit), material_price),
                              RAdd(One, scrap))
        pcosts == backup_compute_process_costs(tpl.default_processes, processes_map,
                                               q, process_inputs)
        packaging_cost == RMul(I(q), ppp)
        rolled == BackupSummary(material_cost, pcosts[1], packaging_cost, par, ts, q)
    IN  <<rolled[1], pcosts[2], rolled[2]>>

(* ------------------------ compute_sheet_layout -------------------------- *)
Max(a, b) == IF a >= b THEN a ELSE b

\* math.floor and math.ceil of a rational
RFloor(r) == r.n \div r.d
RCeil(r) == -((-r.n) \div r.d)

\* math.floor(usable / pitch) if pitch > 0 else 0
GridCount(usable, pitch) == IF pitch > 0 THEN usable \div pitch ELSE 0

\* mutant: no capacity gives no pieces (and the sheet count falls back to qty)
PiecesCalcZero(raw_count, nest_efficiency) ==
    IF raw_count > 0 THEN Max(1, RFloor(RMul(I(raw_count), nest_efficiency))) ELSE 0

\* mutant: nest_efficiency read as the wasted fraction of the sheet
PiecesCalcWaste(raw_count, nest_efficiency) ==
    IF raw_count > 0
    THEN Max(1, RFloor(RMul(I(raw_count), RSub(One, nest_efficiency)))) ELSE 1

\* line 132: max(1, floor(raw_count * nest_efficiency)) if raw_count > 0 else 1
PiecesCalc(raw_count, nest_efficiency) ==
    IF raw_count > 0 THEN Max(1, RFloor(RMul(I(raw_count), nest_efficiency))) ELSE 1

\* mutant: the rotated orientation is counted whether or not rotation is allowed
compute_sheet_layout_always_rotate(sheet_option, part, q, pieces_override) ==
    LET usable_L == Max(sheet_option.sheet_length_mm - 2 * part.edge_margin_mm, 0)
        usable_W == Max(sheet_option.sheet_width_mm - 2 * part.edge_margin_mm, 0)
        pitch_L == part.blank_length_mm + part.kerf_mm
        pitch_W == part.blank_width_mm + part.kerf_mm
        count_a == GridCount(usable_L, pitch_L) * GridCount(usable_W, pitch_W)
        count_b == IF TRUE
                   THEN GridCount(usable_L, pitch_W) * GridCount(usable_W, pitch_L)
                   ELSE 0
        raw_count == Max(count_a, count_b)
        pieces_calc == PiecesCalc(raw_count, part.nest_efficiency)
        pieces_per_sheet == IF pieces_override # <<>> /\ pieces_override[1] > 0
                            THEN pieces_override[1] ELSE pieces_calc
        sheets_needed == IF pieces_per_sheet > 0
                         THEN RCeil(R(q, pieces_per_sheet)) ELSE q
    IN  [count_a |-> count_a,
         count_b |-> count_b,
         raw_count |-> raw_count,
         pieces_per_sheet_calc |-> pieces_calc,
         pieces_per_sheet |-> pieces_per_sheet,
         sheets_needed |-> sheets_needed]

\* lines 99-143
compute_sheet_layout(sheet_option, part, q, pieces_override) ==
    LET usable_L == Max(sheet_option.sheet_length_mm - 2 * part.edge_margin_mm, 0)
        usable_W == Max(sheet_option.sheet_width_mm - 2 * part.edge_margin_mm, 0)
        pitch_L == part.blank_length_mm + part.kerf_mm
        pitch_W == part.blank_width_mm + part.kerf_mm
        count_a == GridCount(usable_L, pitch_L) * GridCount(usable_W, pitch_W)
        count_b == IF part.allow_rotate
                   THEN GridCount(usable_L, pitch_W) * GridCount(usable_W, pitch_L)
                   ELSE 0
        raw_count == Max(count_a, count_b)
        pieces_calc == PiecesCalc(raw_count, part.nest_efficiency)
        pieces_per_sheet == IF pieces_override # <<>> /\ pieces_override[1] > 0
                            THEN pieces_override[1] ELSE pieces_calc
        sheets_needed == IF pieces_per_sheet > 0
                         THEN RCeil(R(q, pieces_per_sheet)) ELSE q
    IN  [count_a |-> count_a,
         count_b |-> count_b,
         raw_count |-> raw_count,
         pieces_per_sheet_calc |-> pieces_calc,
         pieces_per_sheet |-> pieces_per_sheet,
         sheets_needed |-> sheets_needed]

(* ----------------------- evaluate_sheet_options ------------------------- *)
RAbs(r) == [n |-> Abs(r.n), d |-> r.d]

ThicknessDiff(opt, part) == RAbs(RSub(opt.thickness_mm, part.thickness_mm))

\* min(diffs)
RECURSIVE MinDiff(_, _)
MinDiff(opts, part) ==
    IF Len(opts) = 1 THEN ThicknessDiff(opts[1], part)
    ELSE LET rest == MinDiff(Tail(opts), part)
             d == ThicknessDiff(Head(opts), part)
         IN  IF RLt(rest, d) THEN rest ELSE d

\* f'{sheet_length_mm}x{sheet_width_mm}x{thickness_mm}mm': the label is
\* determined by the three dimensions and not by the price
SheetSpec(opt) == <<opt.sheet_length_mm, opt.sheet_width_mm, opt.thickness_mm>>

\* lines 162-172: the row appended for a candidate with layout calc
SheetRowOf(opt, calc) ==
    [sheet_spec |-> SheetSpec(opt),
     sheet_price |-> opt.sheet_price,
     pieces_per_sheet |-> calc.pieces_per_sheet,
     sheets_needed |-> calc.sheets_needed,
     material_cost |-> RMul(I(calc.sheets_needed), opt.sheet_price),
     sheet_option |-> opt,
     calc |-> calc]

\* lines 160-173: the row of one candidate
SheetRow(opt, part, q) == SheetRowOf(opt, compute_sheet_layout(opt, part, q, <<>>))

\* sorted(rows, key=lambda r: r["material_cost"]), stable
RECURSIVE InsertByCost(_, _)
InsertByCost(sorted, row) ==
    IF sorted = <<>> THEN <<row>>
    ELSE IF RLt(row.material_cost, Head(sorted).material_cost) THEN <<row>> \o sorted
    ELSE <<Head(sorted)>> \o InsertByCost(Tail(sorted), row)

RECURSIVE SortedByCost(_)
SortedByCost(rows) ==
    IF rows = <<>> THEN <<>>
    ELSE InsertByCost(SortedByCost(SubSeq(rows, 1, Len(rows) - 1)), rows[Len(rows)])

\* lines 176-177: recommended = rows_sorted[0] if rows_sorted else None
WithRecommended(rows_sorted) ==
    <<rows_sorted, IF rows_sorted # <<>> THEN <<rows_sorted[1]>> ELSE <<>>>>

\* mutant: the rows are left in catalog order and the first one is recommended
evaluate_sheet_options_unsorted(sheet_options, part, q) ==
    IF sheet_options = <<>> THEN <<<<>>, <<>>>>
    ELSE LET min_diff == MinDiff(sheet_options, part)
             candidates == SelectSeq(sheet_options,
                                     LAMBDA opt : ThicknessDiff(opt, part) = min_diff)
             rows == [i \in 1..Len(candidates) |-> SheetRow(candidates[i], part, q)]
         IN  WithRecommended(rows)

\* lines 146-177; returns <<rows_sorted, Optional recommended>>
evaluate_sheet_options(sheet_options, part, q) ==
    IF sheet_options = <<>> THEN <<<<>>, <<>>>>
    ELSE LET min_diff == MinDiff(sheet_options, part)
             candidates == SelectSeq(sheet_options,
                                     LAMBDA opt : ThicknessDiff(opt, part) = min_diff)
             rows == [i \in 1..Len(candidates) |-> SheetRow(candidates[i], part, q)]
         IN  WithRecommended(SortedByCost(rows))

(* ------------------------------ catalog --------------------------------- *)
\* bundle.materials keyed by code
MaterialsMap ==
    "SS" :> [pricing_mode |-> "by_sheet",
             sheet_options |->
                << [sheet_length_mm |-> 100, sheet_width_mm |-> 60,
                    thickness_mm |-> I(1), sheet_price |-> I(20)],
                   [sheet_length_mm |-> 60, sheet_width_mm |-> 60,
                    thickness_mm |-> I(1), sheet_price |-> I(15)],
                   [sheet_length_mm |-> 100, sheet_width_mm |-> 100,
                    thickness_mm |-> I(2), sheet_price |-> I(30)] >>]
    @@ "AL" :> [pricing_mode |-> "by_sheet", sheet_options |-> <<>>]
    @@ "FE" :> [pricing_mode |-> "by_weight", sheet_options |-> <<>>]

\* bundle.parts keyed by part_code
PartsMap ==
    "P1" :> [part_code |-> "P1", material_code |-> "SS", thickness_mm |-> I(1),
             blank_length_mm |-> 20, blank_width_mm |-> 10, allow_rotate |-> TRUE,
             edge_margin_mm |-> 5, kerf_mm |-> 2, nest_efficiency |-> R(85, 100),
             process_steps |->
                << [process_code |-> "CUT", minutes_per_unit |-> I(2), enabled |-> TRUE],
                   [process_code |-> "BEND", minutes_per_unit |-> R(1, 2), enabled |-> TRUE] >>]
    @@ "P2" :> [part_code |-> "P2", material_code |-> "SS", thickness_mm |-> R(3, 2),
                blank_length_mm |-> 200, blank_width_mm |-> 200, allow_rotate |-> TRUE,
                edge_margin_mm |-> 5, kerf_mm |-> 2, nest_efficiency |-> R(85, 100),
                process_steps |->
                   << [process_code |-> "CUT", minutes_per_unit |-> I(2), enabled |-> TRUE] >>]
    @@ "P3" :> [part_code |-> "P3", material_code |-> "AL", thickness_mm |-> I(1),
                blank_length_mm |-> 20, blank_width_mm |-> 10, allow_rotate |-> FALSE,
                edge_margin_mm |-> 5, kerf_mm |-> 2, nest_efficiency |-> R(85, 100),
                process_steps |->
                   << [process_code |-> "CUT", minutes_per_unit |-> I(2), enabled |-> TRUE] >>]
    @@ "P4" :> [part_code |-> "P4", material_code |-> "FE", thickness_mm |-> I(1),
                blank_length_mm |-> 20, blank_width_mm |-> 10, allow_rotate |-> TRUE,
                edge_margin_mm |-> 5, kerf_mm |-> 2, nest_efficiency |-> R(85, 100),
                process_steps |->
                   << [process_code |-> "XX", minutes_per_unit |-> I(2), enabled |-> TRUE],
                      [process_code |-> "CUT", minutes_per_unit |-> I(2), enabled |-> FALSE] >>]
    @@ "P5" :> [part_code |-> "P5", material_code |-> "ZZ", thickness_mm |-> I(1),
                blank_length_mm |-> 20, blank_width_mm |-> 10, allow_rotate |-> TRUE,
                edge_margin_mm |-> 5, kerf_mm |-> 2, nest_efficiency |-> R(85, 100),
                process_steps |-> <<>>]
    @@ "P6" :> [part_code |-> "P6", material_code |-> "SS", thickness_mm |-> I(1),
                blank_length_mm |-> 55, blank_width_mm |-> 40, allow_rotate |-> TRUE,
                edge_margin_mm |-> 5, kerf_mm |-> 2, nest_efficiency |-> R(85, 100),
                process_steps |->
                   << [process_code |-> "CUT", minutes_per_unit |-> R(1, 2), enabled |-> TRUE] >>]

\* bundle.purchased_items keyed by item_code
PurchasedMap ==
    "SCREW" :> [item_code |-> "SCREW", unit_cost |-> R(1, 2), waste_pct |-> R(1, 10),
                moq_qty |-> <<I(10)>>]
    @@ "NUT" :> [item_code |-> "NUT", unit_cost |-> I(3), waste_pct |-> Zero,
                 moq_qty |-> <<>>]
    @@ "PIN" :> [item_code |-> "PIN", unit_cost |-> I(2), waste_pct |-> R(1, 4),
                 moq_qty |-> <<Zero>>]

\* lines 294-299: packaging rules keyed by item_code, tagged with their type
PackagingMap ==
    "BAG" :> [type |-> "per_unit", item_code |-> "BAG", unit_cost |-> R(1, 4),
              qty_per_unit |-> <<I(2)>>, units_per_carton |-> <<>>, qty_per_carton |-> <<>>]
    @@ "BOX" :> [type |-> "per_carton", item_code |-> "BOX", unit_cost |-> I(4),
                 qty_per_unit |-> <<>>, units_per_carton |-> <<2>>, qty_per_carton |-> <<I(2)>>]
    @@ "CTN" :> [type |-> "per_carton", item_code |-> "CTN", unit_cost |-> I(5),
                 qty_per_unit |-> <<>>, units_per_carton |-> <<>>, qty_per_carton |-> <<>>]

(* ------------------- render_quote_tab: the BOM loop --------------------- *)
\* dict.get(key, default) on an Optional field
GetOr(opt, default) == IF opt = <<>> THEN default ELSE opt[1]

\* materials_map.get(part.get("material_code", ""), {}) with the defaults
\* of lines 408 and 414
MaterialOf(materials_map, code) ==
    IF code \in DOMAIN materials_map THEN materials_map[code]
    ELSE [pricing_mode |-> "by_weight", sheet_options |-> <<>>]

EmptyAcc ==
    [bom_rows |-> <<>>, process_breakdown |-> <<>>, alternatives_export |-> <<>>,
     material_total |-> Zero, process_total |-> Zero,
     purchased_total |-> Zero, packaging_total |-> Zero,
     warnings |-> <<>>, infos |-> <<>>]

Warn(acc, kind, code) ==
    [acc EXCEPT !.warnings = Append(@, [kind |-> kind, code |-> code])]

NoOverride == [enabled |-> FALSE, selected |-> 1, pieces |-> <<>>]

\* next(r for r in rows if r["sheet_spec"] == selected)
RECURSIVE FirstWithSpec(_, _)
FirstWithSpec(rows, spec) ==
    IF Head(rows).sheet_spec = spec THEN Head(rows) ELSE FirstWithSpec(Tail(rows), spec)

\* mutant: the override is priced at the recommended row's sheet price
OverrideResultRecommendedPrice(rows, part, part_qty, override) ==
    LET selected == rows[override.selected].sheet_spec
        selected_row == FirstWithSpec(rows, selected)
        pieces_override == GetOr(override.pieces, selected_row.pieces_per_sheet)
        calc == compute_sheet_layout(selected_row.sheet_option, part, part_qty,
                                     <<pieces_override>>)
    IN  [sheet_spec |-> selected_row.sheet_spec,
         sheet_price |-> selected_row.sheet_price,
         pieces_per_sheet |-> calc.pieces_per_sheet,
         sheets_needed |-> calc.sheets_needed,
         material_cost |-> RMul(I(calc.sheets_needed), rows[1].sheet_option.sheet_price)]

\* lines 462-487: the engineering override of one part line
OverrideResult(rows, part, part_qty, override) ==
    LET selected == rows[override.selected].sheet_spec
        selected_row == FirstWithSpec(rows, selected)
        pieces_override == GetOr(override.pieces, selected_row.pieces_per_sheet)
        calc == compute_sheet_layout(selected_row.sheet_option, part, part_qty,
                                     <<pieces_override>>)
    IN  [sheet_spec |-> selected_row.sheet_spec,
         sheet_price |-> selected_row.sheet_price,
         pieces_per_sheet |-> calc.pieces_per_sheet,
         sheets_needed |-> calc.sheets_needed,
         material_cost |-> RMul(I(calc.sheets_needed), selected_row.sheet_option.sheet_price)]

\* lines 446-458
AlternativeRows(rows, part) ==
    [i \in 1..Len(rows) |->
        [part_code |-> part.part_code,
         sheet_spec |-> rows[i].sheet_spec,
         sheet_price |-> rows[i].sheet_price,
         pieces_per_sheet |-> rows[i].pieces_per_sheet,
         sheets_needed |-> rows[i].sheets_needed,
         material_cost |-> rows[i].material_cost]]

\* mutant: a by_sheet material without a recommendation is not reported
SheetResultOfSilent(rows, recommended, part, part_qty, override, code) ==
    IF recommended # <<>>
    THEN [sheet_result |->
             IF override.enabled
             THEN <<OverrideResult(rows, part, part_qty, override)>>
             ELSE recommended,
          alternatives |-> AlternativeRows(rows, part),
          warnings |-> <<>>, infos |-> <<>>]
    ELSE [sheet_result |-> <<>>, alternatives |-> <<>>,
          warnings |-> <<>>, infos |-> <<>>]

\* lines 442-489: the branch on the recommended row of the evaluation
SheetResultOf(rows, recommended, part, part_qty, override, code) ==
    IF recommended # <<>>
    THEN [sheet_result |->
             IF override.enabled
             THEN <<OverrideResult(rows, part, part_qty, override)>>
             ELSE recommended,
          alternatives |-> AlternativeRows(rows, part),
          warnings |-> <<>>, infos |-> <<>>]
    ELSE [sheet_result |-> <<>>, alternatives |-> <<>>,
          warnings |-> <<[kind |-> "no_sheet_options", code |-> code]>>,
          infos |-> <<>>]

\* rows, recommended = evaluate_sheet_options(...)
SheetResultOfEval(ev, part, part_qty, override, code) ==
    SheetResultOf(ev[1], ev[2], part, part_qty, override, code)

\* lines 413-491: Optional sheet_result, plus the messages and the export rows
SheetResult(part, part_qty, override, code) ==
    LET material == MaterialOf(MaterialsMap, part.material_code)
    IN  IF material.pricing_mode = "by_sheet"
        THEN SheetResultOfEval(
                 evaluate_sheet_options(material.sheet_options, part, part_qty),
                 part, part_qty, override, code)
        ELSE [sheet_result |-> <<>>, alternatives |-> <<>>, warnings |-> <<>>,
              infos |-> <<[kind |-> "by_weight", code |-> code]>>]

\* mutant: the unit cost is the line total, not divided by the quantity
PartRowUndivided(line, part, part_qty, sheet_result, material_cost, proc_cost, line_total) ==
    [line_type |-> "part",
     code |-> part.part_code,
     qty_total |-> I(part_qty),
     unit_cost |-> IF part_qty # 0 THEN line_total ELSE Zero,
     line_total |-> line_total,
     material_cost |-> material_cost,
     process_cost |-> proc_cost,
     sheet_spec |-> IF sheet_result # <<>> THEN <<sheet_result[1].sheet_spec>> ELSE <<>>,
     pieces_per_sheet |-> IF sheet_result # <<>>
                          THEN <<sheet_result[1].pieces_per_sheet>> ELSE <<>>,
     sheets_needed |-> IF sheet_result # <<>>
                       THEN <<sheet_result[1].sheets_needed>> ELSE <<>>,
     optional |-> line.optional]

\* lines 515-532: the BOM row of a part line
PartRow(line, part, part_qty, sheet_result, material_cost, proc_cost, line_total) ==
    [line_type |-> "part",
     code |-> part.part_code,
     qty_total |-> I(part_qty),
     unit_cost |-> IF part_qty # 0 THEN RDiv(line_total, I(part_qty)) ELSE Zero,
     line_total |-> line_total,
     material_cost |-> material_cost,
     process_cost |-> proc_cost,
     sheet_spec |-> IF sheet_result # <<>> THEN <<sheet_result[1].sheet_spec>> ELSE <<>>,
     pieces_per_sheet |-> IF sheet_result # <<>>
                          THEN <<sheet_result[1].pieces_per_sheet>> ELSE <<>>,
     sheets_needed |-> IF sheet_result # <<>>
                       THEN <<sheet_result[1].sheets_needed>> ELSE <<>>,
     optional |-> line.optional]

\* lines 446-532: the accumulators after a part line with sheet evaluation
\* sr, material cost material_cost and process costs pcosts
PartLineAcc(acc, line, part, part_qty, sr, material_cost, pcosts) ==
    [acc EXCEPT !.bom_rows = Append(@, PartRow(line, part, part_qty, sr.sheet_result,
                                               material_cost, pcosts[1],
                                               RAdd(material_cost, pcosts[1]))),
                !.process_breakdown = @ \o pcosts[2],
                !.alternatives_export = @ \o sr.alternatives,
                !.material_total = RAdd(@, material_cost),
                !.process_total = RAdd(@, pcosts[1]),
                !.warnings = @ \o sr.warnings,
                !.infos = @ \o sr.infos]

\* lines 493-498: material_cost = sheet_result["material_cost"] if sheet_result, else 0.0
MaterialCostOf(sheet_result) ==
    IF sheet_result # <<>> THEN sheet_result[1].material_cost ELSE Zero

\* lines 407-532 for a part found in the catalog
PartLineWith(acc, line, part, part_qty, sr) ==
    PartLineAcc(acc, line, part, part_qty, sr, MaterialCostOf(sr.sheet_result),
                compute_process_costs(part.process_steps, ProcessesMap,
                                      part_qty, part.part_code))

\* lines 401-532
EvalPartLine(acc, line, prod, q, override) ==
    IF line.code \notin DOMAIN PartsMap
    THEN Warn(acc, "part_not_found", line.code)
    ELSE LET part == PartsMap[line.code]
             qty_per_unit == GetOr(line.qty_per_unit, One)
             part_qty == RCeil(RMul(I(q), qty_per_unit))
         IN  PartLineWith(acc, line, part, part_qty,
                          SheetResult(part, part_qty, override, line.code))

RMax(a, b) == IF RLt(a, b) THEN b ELSE a

\* mutant: an unknown purchased item is priced from the field defaults
EvalPurchasedLineDefaults(acc, line, prod, q) ==
    LET known == line.code \in DOMAIN PurchasedMap
        item == IF known THEN PurchasedMap[line.code]
                ELSE [item_code |-> line.code, unit_cost |-> Zero,
                      waste_pct |-> Zero, moq_qty |-> <<>>]
        base_qty == RMul(I(q), GetOr(line.qty_per_unit, One))
        total_qty == IF item.moq_qty # <<>> /\ item.moq_qty[1] # Zero
                     THEN RMax(base_qty, item.moq_qty[1]) ELSE base_qty
        line_total == RMul(RMul(total_qty, item.unit_cost), RAdd(One, item.waste_pct))
        row == [line_type |-> "purchased", code |-> item.item_code,
                qty_total |-> total_qty, unit_cost |-> item.unit_cost,
                line_total |-> line_total, material_cost |-> Zero,
                process_cost |-> Zero, sheet_spec |-> <<>>,
                pieces_per_sheet |-> <<>>, sheets_needed |-> <<>>,
                optional |-> line.optional]
    IN  [(IF known THEN acc ELSE Warn(acc, "purchased_not_found", line.code))
            EXCEPT !.bom_rows = Append(@, row),
                   !.purchased_total = RAdd(@, line_total)]

\* mutant: the minimum order quantity is not applied
EvalPurchasedLineNoMoq(acc, line, prod, q) ==
    IF line.code \notin DOMAIN PurchasedMap
    THEN Warn(acc, "purchased_not_found", line.code)
    ELSE LET item == PurchasedMap[line.code]
             base_qty == RMul(I(q), GetOr(line.qty_per_unit, One))
             total_qty == base_qty
             line_total == RMul(RMul(total_qty, item.unit_cost),
                                RAdd(One, item.waste_pct))
             row == [line_type |-> "purchased", code |-> item.item_code,
                     qty_total |-> total_qty, unit_cost |-> item.unit_cost,
                     line_total |-> line_total, material_cost |-> Zero,
                     process_cost |-> Zero, sheet_spec |-> <<>>,
                     pieces_per_sheet |-> <<>>, sheets_needed |-> <<>>,
                     optional |-> line.optional]
         IN  [acc EXCEPT !.bom_rows = Append(@, row),
                         !.purchased_total = RAdd(@, line_total)]

\* lines 534-561
EvalPurchasedLine(acc, line, prod, q) ==
    IF line.code \notin DOMAIN PurchasedMap
    THEN Warn(acc, "purchased_not_found", line.code)
    ELSE LET item == PurchasedMap[line.code]
             base_qty == RMul(I(q), GetOr(line.qty_per_unit, One))
             total_qty == IF item.moq_qty # <<>> /\ item.moq_qty[1] # Zero
                          THEN RMax(base_qty, item.moq_qty[1]) ELSE base_qty
             line_total == RMul(RMul(total_qty, item.unit_cost),
                                RAdd(One, item.waste_pct))
             row == [line_type |-> "purchased", code |-> item.item_code,
                     qty_total |-> total_qty, unit_cost |-> item.unit_cost,
                     line_total |-> line_total, material_cost |-> Zero,
                     process_cost |-> Zero, sheet_spec |-> <<>>,
                     pieces_per_sheet |-> <<>>, sheets_needed |-> <<>>,
                     optional |-> line.optional]
         IN  [acc EXCEPT !.bom_rows = Append(@, row),
                         !.purchased_total = RAdd(@, line_total)]

\* rule.get("units_per_carton") or product.get("units_per_carton")
UnitsPerCarton(rule, prod) ==
    IF rule.units_per_carton # <<>> /\ rule.units_per_carton[1] # 0
    THEN rule.units_per_carton ELSE prod.units_per_carton

\* mutant: an optional packaging line is listed but left out of the total
EvalPackagingLineOptionalFree(acc, line, prod, q) ==
    IF line.code \notin DOMAIN PackagingMap
    THEN Warn(acc, "packaging_not_found", line.code)
    ELSE LET rule == PackagingMap[line.code]
             units_per_carton == UnitsPerCarton(rule, prod)
             cartons == IF units_per_carton # <<>> /\ units_per_carton[1] # 0
                        THEN RCeil(R(q, units_per_carton[1])) ELSE 0
             total_qty ==
                 IF rule.type = "per_unit"
                 THEN RMul(I(q), GetOr(line.qty_per_unit, GetOr(rule.qty_per_unit, One)))
                 ELSE RMul(I(cartons), GetOr(rule.qty_per_carton, One))
             line_total == RMul(total_qty, rule.unit_cost)
             row == [line_type |-> "packaging", code |-> rule.item_code,
                     qty_total |-> total_qty, unit_cost |-> rule.unit_cost,
                     line_total |-> line_total, material_cost |-> Zero,
                     process_cost |-> Zero, sheet_spec |-> <<>>,
                     pieces_per_sheet |-> <<>>, sheets_needed |-> <<>>,
                     optional |-> line.optional]
         IN  [acc EXCEPT !.bom_rows = Append(@, row),
                         !.packaging_total =
                             IF line.optional THEN @ ELSE RAdd(@, line_total)]

\* mutant: the line's qty_per_unit scales a per_carton line as well
EvalPackagingLineScaled(acc, line, prod, q) ==
    IF line.code \notin DOMAIN PackagingMap
    THEN Warn(acc, "packaging_not_found", line.code)
    ELSE LET rule == PackagingMap[line.code]
             units_per_carton == UnitsPerCarton(rule, prod)
             cartons == IF units_per_carton # <<>> /\ units_per_carton[1] # 0
                        THEN RCeil(R(q, units_per_carton[1])) ELSE 0
             total_qty ==
                 IF rule.type = "per_unit"
                 THEN RMul(I(q), GetOr(line.qty_per_unit, GetOr(rule.qty_per_unit, One)))
                 ELSE RMul(RMul(I(cartons), GetOr(rule.qty_per_carton, One)),
                           GetOr(line.qty_per_unit, One))
             line_total == RMul(total_qty, rule.unit_cost)
             row == [line_type |-> "packaging", code |-> rule.item_code,
                     qty_total |-> total_qty, unit_cost |-> rule.unit_cost,
                     line_total |-> line_total, material_cost |-> Zero,
                     process_cost |-> Zero, sheet_spec |-> <<>>,
                     pieces_per_sheet |-> <<>>, sheets_needed |-> <<>>,
                     optional |-> line.optional]
         IN  [acc EXCEPT !.bom_rows = Append(@, row),
                         !.packaging_total = RAdd(@, line_total)]

\* lines 563-595
EvalPackagingLine(acc, line, prod, q) ==
    IF line.code \notin DOMAIN PackagingMap
    THEN Warn(acc, "packaging_not_found", line.code)
    ELSE LET rule == PackagingMap[line.code]
             units_per_carton == UnitsPerCarton(rule, prod)
             cartons == IF units_per_carton # <<>> /\ units_per_carton[1] # 0
                        THEN RCeil(R(q, units_per_carton[1])) ELSE 0
             total_qty ==
                 IF rule.type = "per_unit"
                 THEN RMul(I(q), GetOr(line.qty_per_unit, GetOr(rule.qty_per_unit, One)))
                 ELSE RMul(I(cartons), GetOr(rule.qty_per_carton, One))
             line_total == RMul(total_qty, rule.unit_cost)
             row == [line_type |-> "packaging", code |-> rule.item_code,
                     qty_total |-> total_qty, unit_cost |-> rule.unit_cost,
                     line_total |-> line_total, material_cost |-> Zero,
                     process_cost |-> Zero, sheet_spec |-> <<>>,
                     pieces_per_sheet |-> <<>>, sheets_needed |-> <<>>,
                     optional |-> line.optional]
         IN  [acc EXCEPT !.bom_rows = Append(@, row),
                         !.packaging_total = RAdd(@, line_total)]

\* lines 395-595: the for loop over enumerate(product["bom_lines"]); ovs[idx]
\* is the state of the override widgets keyed by the line index idx
RECURSIVE BomLoop(_, _, _, _, _)
BomLoop(acc, idx, prod, q, ovs) ==
    IF idx > Len(prod.bom_lines) THEN acc
    ELSE LET line == prod.bom_lines[idx]
             next == IF line.type = "part"
                     THEN EvalPartLine(acc, line, prod, q, ovs[idx])
                     ELSE IF line.type = "purchased"
                     THEN EvalPurchasedLine(acc, line, prod, q)
                     ELSE IF line.type = "packaging"
                     THEN EvalPackagingLine(acc, line, prod, q)
                     ELSE acc
         IN  BomLoop(next, idx + 1, prod, q, ovs)

\* lines 597-611 and 656-673: the rollup of the accumulated buckets and the
\* closing warning of an empty process breakdown
QuoteFromAcc(acc, tot, q, par, ts) ==
    [bom_rows |-> acc.bom_rows,
     process_breakdown |-> acc.process_breakdown,
     alternatives_export |-> acc.alternatives_export,
     totals |-> tot,
     summary |-> QuoteRollup(tot, par, ts, q),
     warnings |-> IF acc.process_breakdown = <<>>
                  THEN Append(acc.warnings, [kind |-> "no_process_costs", code |-> ""])
                  ELSE acc.warnings,
     infos |-> acc.infos]

BucketsOf(acc) ==
    [material_total |-> acc.material_total,
     process_total |-> acc.process_total,
     purchased_total |-> acc.purchased_total,
     packaging_total |-> acc.packaging_total]

QuoteOfAcc(acc, q, par, ts) == QuoteFromAcc(acc, BucketsOf(acc), q, par, ts)

\* lines 386-611 and 656-673: the quote of one run of render_quote_tab
QuoteOf(prod, q, par, ts, ovs) ==
    QuoteOfAcc(BomLoop(EmptyAcc, 1, prod, q, ovs), q, par, ts)

(* ------------------------- input domains -------------------------------- *)
SeqsUpTo(S, k) == UNION {[1..m -> S] : m \in 0..k}

QtyValues == (0..MaxQty) \cup {49, 50}
TierMinValues == (1..MaxQty) \cup {50}
TierMaxValues == {<<>>} \cup {<<m>> : m \in (1..MaxQty) \cup {49}}
TierMultipliers == {One, R(9, 10)}
Tiers == [min_qty : TierMinValues, max_qty : TierMaxValues, multiplier : TierMultipliers]

ExampleTiers ==
    << [min_qty |-> 1, max_qty |-> <<49>>, multiplier |-> One],
       [min_qty |-> 50, max_qty |-> <<>>, multiplier |-> R(9, 10)] >>

NoTotals ==
    [material_total |-> Zero, process_total |-> Zero,
     purchased_total |-> Zero, packaging_total |-> Zero]
NoParams ==
    [overhead_pct |-> Zero, tax_pct |-> Zero, margin_pct |-> Zero,
     pricing_mode |-> "gross_margin", shipping_per_order |-> Zero]
NoSummary == QuoteRollup(NoTotals, NoParams, <<>>, 0)

RollupTotals ==
    [material_total : {Zero, I(1000)}, process_total : {Zero, I(200)},
     purchased_total : {Zero, I(30)}, packaging_total : {Zero, I(50)}]
RollupParams ==
    [overhead_pct : {Zero, R(5, 100)}, tax_pct : {Zero, R(13, 100)},
     margin_pct : {Zero, R(18, 100), One, R(3, 2)},
     pricing_mode : {"gross_margin", "markup"},
     shipping_per_order : {Zero, I(120)}]
RollupTiers == {<<>>, ExampleTiers, <<[min_qty |-> 1, max_qty |-> <<>>, multiplier |-> R(4, 5)]>>}
RollupQtys == {0, 1, 100}

ProcessCodes == {"CUT", "BEND", "XX"}
StepMinutes == {R(1, 2), I(2)}
Steps == [process_code : ProcessCodes, minutes_per_unit : StepMinutes, enabled : BOOLEAN]
TemplateProcesses == [process_code : ProcessCodes, minutes : StepMinutes]
NoTemplate ==
    [material_code |-> "", weight_kg_per_unit |-> Zero, default_processes |-> <<>>]
NoUserInputs == [c \in {} |-> [enabled |-> TRUE, basis |-> "per_hour", minutes |-> Zero]]
UserInputs ==
    {NoUserInputs,
     "CUT" :> [enabled |-> FALSE, basis |-> "per_hour", minutes |-> I(2)],
     "CUT" :> [enabled |-> TRUE, basis |-> "fixed", minutes |-> I(2)]
        @@ "XX" :> [enabled |-> TRUE, basis |-> "per_piece", minutes |-> I(3)],
     "BEND" :> [enabled |-> TRUE, basis |-> "per_piece", minutes |-> I(3)]
        @@ "XX" :> [enabled |-> FALSE, basis |-> "per_hour", minutes |-> I(3)]}
ProcessQtys == 0..MaxQty

Line(type, code, qty_per_unit, optional) ==
    [type |-> type, code |-> code, qty_per_unit |-> qty_per_unit, optional |-> optional]

BomLines ==
    { Line("part", "P1", <<R(1, 2)>>, TRUE),
      Line("part", "P2", <<>>, FALSE),
      Line("part", "P3", <<One>>, FALSE),
      Line("part", "P3", <<Zero>>, FALSE),
      Line("part", "P4", <<One>>, FALSE),
      Line("part", "P5", <<One>>, FALSE),
      Line("part", "PX", <<One>>, FALSE),
      Line("purchased", "SCREW", <<I(2)>>, TRUE),
      Line("purchased", "NUT", <<R(1, 2)>>, FALSE),
      Line("purchased", "UX", <<One>>, FALSE),
      Line("packaging", "BAG", <<>>, FALSE),
      Line("packaging", "BOX", <<I(3)>>, FALSE),
      Line("packaging", "CTN", <<One>>, TRUE),
      Line("packaging", "KX", <<One>>, FALSE) }

Products ==
    [sku : {"SKU1"}, bom_lines : SeqsUpTo(BomLines, MaxBomLines),
     units_per_carton : {<<>>, <<4>>}]

QuoteQtys == {3, 7}

QuoteSettings ==
    { [params |-> [overhead_pct |-> R(5, 100), tax_pct |-> R(13, 100),
                   margin_pct |-> R(18, 100), pricing_mode |-> "gross_margin",
                   shipping_per_order |-> I(120)],
       tiers |-> <<>>, units_per_carton |-> <<>>, qty |-> 3],
      [params |-> [overhead_pct |-> Zero, tax_pct |-> R(13, 100),
                   margin_pct |-> R(1, 2), pricing_mode |-> "markup",
                   shipping_per_order |-> Zero],
       tiers |-> << [min_qty |-> 1, max_qty |-> <<2>>, multiplier |-> One],
                    [min_qty |-> 3, max_qty |-> <<>>, multiplier |-> R(9, 10)] >>,
       units_per_carton |-> <<4>>, qty |-> 7] }

OverrideChoices ==
    { NoOverride,
      [enabled |-> TRUE, selected |-> 1, pieces |-> <<>>],
      [enabled |-> TRUE, selected |-> 2, pieces |-> <<3>>] }

\* the sheet rows offered in the override widgets of a line (lines 414, 463)
LineRows(line, q) ==
    IF line.type = "part" /\ line.code \in DOMAIN PartsMap
    THEN LET part == PartsMap[line.code]
             material == MaterialOf(MaterialsMap, part.material_code)
         IN  IF material.pricing_mode = "by_sheet"
             THEN evaluate_sheet_options(material.sheet_options, part,
                      RCeil(RMul(I(q), GetOr(line.qty_per_unit, One))))[1]
             ELSE <<>>
    ELSE <<>>

\* the override widgets exist only for a part line with sheet rows, and the
\* select box offers the labels of those rows
OverridesFor(bom_lines, q) ==
    { ovs \in [1..Len(bom_lines) -> OverrideChoices] :
        \A i \in 1..Len(bom_lines) :
            LET rows == LineRows(bom_lines[i], q)
            IN  IF rows = <<>> THEN ovs[i] = NoOverride
                ELSE ovs[i].selected <= Len(rows) }

\* the part fields read by compute_sheet_layout and evaluate_sheet_options
LayoutPart(blank_length, blank_width, kerf, edge_margin, allow_rotate, efficiency, thickness) ==
    [thickness_mm |-> thickness, blank_length_mm |-> blank_length,
     blank_width_mm |-> blank_width, allow_rotate |-> allow_rotate,
     edge_margin_mm |-> edge_margin, kerf_mm |-> kerf,
     nest_efficiency |-> efficiency]

SheetOption(sheet_length, sheet_width, thickness, sheet_price) ==
    [sheet_length_mm |-> sheet_length, sheet_width_mm |-> sheet_width,
     thickness_mm |-> thickness, sheet_price |-> sheet_price]

NoSheet == SheetOption(0, 0, Zero, Zero)
NoPart == LayoutPart(0, 0, 0, 0, FALSE, Zero, Zero)
NoLayout ==
    [count_a |-> 0, count_b |-> 0, raw_count |-> 0, pieces_per_sheet_calc |-> 0,
     pieces_per_sheet |-> 0, sheets_needed |-> 0]

NestEfficiencies == {Zero, R(1, 2), R(85, 100), One, R(3, 2)}
LayoutSheets ==
    {SheetOption(l, w, One, I(20)) : l \in {60, 100}, w \in {60, 70}}
LayoutParts ==
    {LayoutPart(bl, bw, k, em, rot, e, One) :
        bl \in {0, 20, 55}, bw \in {0, 10}, k \in {0, 2}, em \in {5, 40},
        rot \in BOOLEAN, e \in NestEfficiencies}
LayoutQtys == (0..MaxQty) \cup {7}
PiecesOverrides == {<<>>, <<0>>, <<-1>>, <<3>>}

SheetOptions ==
    {SheetOption(l, 60, t, pr) :
        l \in {60, 100}, t \in {One, I(2)}, pr \in {I(15), I(20)}}
SheetParts ==
    {LayoutPart(bl, 10, 2, 5, TRUE, R(85, 100), t) :
        bl \in {40, 200}, t \in {One, R(3, 2)}}

\* the products, quantities and parameters offered in an interactive session
SessionProducts ==
    { [sku |-> "A", bom_lines |-> <<Line("part", "P1", <<R(1, 2)>>, FALSE)>>,
       units_per_carton |-> <<>>],
      [sku |-> "B",
       bom_lines |-> <<Line("purchased", "SCREW", <<I(2)>>, FALSE),
                       Line("packaging", "BAG", <<>>, FALSE)>>,
       units_per_carton |-> <<>>] }
SessionQtys == {3}
SessionSettings == QuoteSettings
\* the override widgets of a session are left alone or set to another sheet
\* with a piece count
SessionOverrides(prod, q) ==
    { ovs \in OverridesFor(prod.bom_lines, q) :
        \A i \in 1..Len(ovs) : ovs[i].enabled => ovs[i].pieces # <<>> }

\* products made of purchased and packaging lines only, with and without a
\* qty_per_unit of their own
ItemLines ==
    {Line("purchased", c, qpu, FALSE) :
        c \in {"SCREW", "NUT", "PIN"}, qpu \in {<<>>, <<R(1, 2)>>, <<I(2)>>}}
    \cup {Line("packaging", c, qpu, FALSE) :
        c \in {"BAG", "BOX", "CTN"}, qpu \in {<<>>, <<I(3)>>}}
ItemProducts ==
    [sku : {"SKU1"}, bom_lines : SeqsUpTo(ItemLines, MaxBomLines),
     units_per_carton : {<<>>, <<0>>, <<4>>}]
ItemQtys == {1, 3, 7}

\* the tier lists, quantities, parameters and direct costs on which the two
\* engines are compared
VariantTierSet ==
    [min_qty : {1, 3}, max_qty : {<<>>, <<2>>}, multiplier : {One, R(9, 10), R(4, 5)}]
VariantQtys == {1, 2, 3}
VariantParams ==
    { [overhead_pct |-> R(5, 100), tax_pct |-> R(13, 100), margin_pct |-> R(18, 100),
       pricing_mode |-> "gross_margin", shipping_per_order |-> I(120)],
      [overhead_pct |-> R(5, 100), tax_pct |-> R(13, 100), margin_pct |-> R(3, 2),
       pricing_mode |-> "gross_margin", shipping_per_order |-> Zero],
      [overhead_pct |-> Zero, tax_pct |-> R(13, 100), margin_pct |-> R(1, 2),
       pricing_mode |-> "markup", shipping_per_order |-> I(120)] }
VariantTotals ==
    { [material_total |-> I(1000), process_total |-> I(200),
       purchased_total |-> I(30), packaging_total |-> I(50)],
      [material_total |-> Zero, process_total |-> Zero,
       purchased_total |-> Zero, packaging_total |-> Zero] }
VariantTemplates ==
    { [template |-> [material_code |-> "SS", weight_kg_per_unit |-> R(1, 2),
                     default_processes |->
                         << [process_code |-> "CUT", minutes |-> I(2)],
                            [process_code |-> "BEND", minutes |-> R(1, 2)] >>],
       scrap_rate |-> R(3, 100), packaging_per_piece |-> R(3, 5),
       user_inputs |-> "BEND" :> [enabled |-> TRUE, basis |-> "fixed", minutes |-> I(3)]],
      [template |-> [material_code |-> "ZZ", weight_kg_per_unit |-> I(2),
                     default_processes |-> <<>>],
       scrap_rate |-> Zero, packaging_per_piece |-> Zero,
       user_inputs |-> NoUserInputs] }

IdleTier == tiers = <<>> /\ qty = 1 /\ multiplier = One /\ matched_tier = <<>>
IdleRollup == totals = NoTotals /\ params = NoParams /\ summary = NoSummary
IdleProcess ==
    /\ engine = "app"
    /\ process_steps = <<>>
    /\ user_inputs = NoUserInputs
    /\ process_cost = Zero
    /\ process_rows = <<>>
IdleQuote ==
    /\ product = [sku |-> "SKU1", bom_lines |-> <<>>, units_per_carton |-> <<>>]
    /\ overrides = <<>>
    /\ bom_rows = <<>>
    /\ process_breakdown = <<>>
    /\ alternatives_export = <<>>
    /\ warnings = <<>>
    /\ infos = <<>>
IdleSheet ==
    /\ layout_sheet = NoSheet
    /\ layout_part = NoPart
    /\ layout_override = <<>>
    /\ layout = NoLayout
    /\ candidate_sheets = <<>>
    /\ sheet_rows = <<>>
    /\ recommended_row = <<>>
IdleCart == quote_lines = <<>>
IdleTemplate ==
    /\ template = NoTemplate
    /\ scrap_rate = Zero
    /\ packaging_per_piece = Zero

(* ------------------- specification: tier resolution -------------------- *)
InitTier ==
    /\ pc = "call"
    /\ tiers \in SeqsUpTo(Tiers, MaxTiers)
    /\ qty \in QtyValues
    /\ multiplier = One
    /\ matched_tier = <<>>
    /\ IdleRollup
    /\ IdleProcess
    /\ IdleQuote
    /\ IdleSheet
    /\ IdleCart
    /\ IdleTemplate

FindMultiplier ==
    /\ pc = "call"
    /\ LET r == find_multiplier(tiers, qty)
       IN  /\ multiplier' = r[1]
           /\ matched_tier' = r[2]
    /\ pc' = "done"
    /\ UNCHANGED <<tiers, qty, rollupVars, processVars, quoteVars, sheetVars, templateVars, cartVars>>

NextTier == FindMultiplier

SpecTier == InitTier /\ [][NextTier]_vars

(* ----------------------- specification: rollup -------------------------- *)
InitRollup ==
    /\ pc = "call"
    /\ tiers \in RollupTiers
    /\ qty \in RollupQtys
    /\ multiplier = One
    /\ matched_tier = <<>>
    /\ totals \in RollupTotals
    /\ params \in RollupParams
    /\ summary = NoSummary
    /\ IdleProcess
    /\ IdleQuote
    /\ IdleSheet
    /\ IdleCart
    /\ IdleTemplate

Rollup ==
    /\ pc = "call"
    /\ summary' = QuoteRollup(totals, params, tiers, qty)
    /\ multiplier' = summary'.multiplier
    /\ matched_tier' = summary'.matched_tier
    /\ pc' = "done"
    /\ UNCHANGED <<tiers, qty, totals, params, processVars, quoteVars, sheetVars, templateVars, cartVars>>

NextRollup == Rollup

SpecRollup == InitRollup /\ [][NextRollup]_vars

(* -------------------- specification: process costs ---------------------- *)
InitProcess ==
    /\ pc = "call"
    /\ tiers = <<>> /\ multiplier = One /\ matched_tier = <<>>
    /\ qty \in ProcessQtys
    /\ IdleRollup
    /\ engine \in {"app", "app_backup"}
    /\ \/ /\ engine = "app"
          /\ process_steps \in SeqsUpTo(Steps, MaxSteps)
          /\ user_inputs = NoUserInputs
       \/ /\ engine = "app_backup"
          /\ process_steps \in SeqsUpTo(TemplateProcesses, MaxSteps)
          /\ user_inputs \in UserInputs
    /\ process_cost = Zero
    /\ process_rows = <<>>
    /\ IdleQuote
    /\ IdleSheet
    /\ IdleCart
    /\ IdleTemplate

ComputeProcessCosts ==
    /\ pc = "call"
    /\ engine = "app"
    /\ LET r == compute_process_costs(process_steps, ProcessesMap, qty, "P1")
       IN  process_cost' = r[1] /\ process_rows' = r[2]
    /\ pc' = "done"
    /\ UNCHANGED <<tierVars, rollupVars, engine, process_steps, user_inputs, quoteVars, sheetVars, templateVars, cartVars>>

BackupComputeProcessCosts ==
    /\ pc = "call"
    /\ engine = "app_backup"
    /\ LET r == backup_compute_process_costs(process_steps, ProcessesMap, qty, user_inputs)
       IN  process_cost' = r[1] /\ process_rows' = r[2]
    /\ pc' = "done"
    /\ UNCHANGED <<tierVars, rollupVars, engine, process_steps, user_inputs, quoteVars, sheetVars, templateVars, cartVars>>

NextProcess == ComputeProcessCosts \/ BackupComputeProcessCosts

SpecProcess == InitProcess /\ [][NextProcess]_vars

(* ------------------ specification: the BOM-driven quote ----------------- *)
InitQuote ==
    /\ pc = "call"
    /\ product \in Products
    /\ \E st \in QuoteSettings :
          /\ qty = st.qty
          /\ params = st.params
          /\ tiers = st.tiers
          /\ product.units_per_carton = st.units_per_carton
    /\ multiplier = One /\ matched_tier = <<>>
    /\ totals = NoTotals
    /\ summary = NoSummary
    /\ IdleProcess
    /\ overrides \in OverridesFor(product.bom_lines, qty)
    /\ bom_rows = <<>>
    /\ process_breakdown = <<>>
    /\ alternatives_export = <<>>
    /\ warnings = <<>>
    /\ infos = <<>>
    /\ IdleSheet
    /\ IdleCart
    /\ IdleTemplate

\* one run of render_quote_tab on the selected product and parameters
RenderQuoteTab ==
    /\ pc = "call"
    /\ \E quote \in {QuoteOf(product, qty, params, tiers, overrides)} :
           /\ bom_rows' = quote.bom_rows
           /\ process_breakdown' = quote.process_breakdown
           /\ alternatives_export' = quote.alternatives_export
           /\ totals' = quote.totals
           /\ summary' = quote.summary
           /\ multiplier' = quote.summary.multiplier
           /\ matched_tier' = quote.summary.matched_tier
           /\ warnings' = quote.warnings
           /\ infos' = quote.infos
    /\ pc' = "done"
    /\ UNCHANGED <<tiers, qty, params, processVars, product, overrides, sheetVars, templateVars, cartVars>>

NextQuote == RenderQuoteTab

SpecQuote == InitQuote /\ [][NextQuote]_vars

(* ------------- specification: purchased and packaging lines ------------- *)
\* the same run of render_quote_tab, on products of purchased and packaging
\* lines and every quantity the quantity input accepts in the domain
InitItems ==
    /\ pc = "call"
    /\ product \in ItemProducts
    /\ qty \in ItemQtys
    /\ \E st \in QuoteSettings :
          /\ st.qty = 3
          /\ params = st.params
          /\ tiers = st.tiers
    /\ multiplier = One /\ matched_tier = <<>>
    /\ totals = NoTotals
    /\ summary = NoSummary
    /\ IdleProcess
    /\ overrides \in OverridesFor(product.bom_lines, qty)
    /\ bom_rows = <<>>
    /\ process_breakdown = <<>>
    /\ alternatives_export = <<>>
    /\ warnings = <<>>
    /\ infos = <<>>
    /\ IdleSheet
    /\ IdleCart
    /\ IdleTemplate

SpecItems == InitItems /\ [][NextQuote]_vars

(* ------------- specification: the two costing engines ------------------- *)
\* the rollup of render_quote_tab (app.py) on its bucket totals, or
\* calculate_quote (app_backup.py) on a template
InitVariants ==
    /\ pc = "call"
    /\ tiers \in SeqsUpTo(VariantTierSet, MaxTiers)
    /\ qty \in VariantQtys
    /\ multiplier = One /\ matched_tier = <<>>
    /\ params \in VariantParams
    /\ summary = NoSummary
    /\ engine \in {"app", "app_backup"}
    /\ \/ /\ engine = "app"
          /\ totals \in VariantTotals
          /\ process_steps = <<>>
          /\ user_inputs = NoUserInputs
          /\ IdleTemplate
       \/ /\ engine = "app_backup"
          /\ totals = NoTotals
          /\ \E v \in VariantTemplates :
                /\ template = v.template
                /\ scrap_rate = v.scrap_rate
                /\ packaging_per_piece = v.packaging_per_piece
                /\ user_inputs = v.user_inputs
                /\ process_steps = v.template.default_processes
    /\ process_cost = Zero
    /\ process_rows = <<>>
    /\ IdleQuote
    /\ IdleSheet
    /\ IdleCart

\* app.py lines 597-611 on the accumulated totals
RenderRollup ==
    /\ engine = "app"
    /\ Rollup

\* app_backup.py line 268: the call of calculate_quote
CalculateQuote ==
    /\ pc = "call"
    /\ engine = "app_backup"
    /\ \E r \in {calculate_quote(template, qty, scrap_rate, params, packaging_per_piece,
                                  BackupMaterialsMap, ProcessesMap, tiers, user_inputs)} :
           /\ summary' = r[1]
           /\ process_cost' = r[1].process_cost
           /\ process_rows' = r[2]
           /\ multiplier' = r[1].multiplier
           /\ matched_tier' = r[3]
    /\ pc' = "done"
    /\ UNCHANGED <<tiers, qty, totals, params, engine, process_steps, user_inputs,
                   quoteVars, sheetVars, cartVars, templateVars>>

NextVariants == RenderRollup \/ CalculateQuote

SpecVariants == InitVariants /\ [][NextVariants]_vars

(* -------------------- specification: sheet layout ----------------------- *)
InitLayout ==
    /\ pc = "call"
    /\ tiers = <<>> /\ multiplier = One /\ matched_tier = <<>>
    /\ qty \in LayoutQtys
    /\ IdleRollup
    /\ IdleProcess
    /\ IdleQuote
    /\ layout_sheet \in LayoutSheets
    /\ layout_part \in LayoutParts
    /\ layout_override \in PiecesOverrides
    /\ layout = NoLayout
    /\ candidate_sheets = <<>>
    /\ sheet_rows = <<>>
    /\ recommended_row = <<>>
    /\ IdleCart
    /\ IdleTemplate

ComputeSheetLayout ==
    /\ pc = "call"
    /\ layout' = compute_sheet_layout(layout_sheet, layout_part, qty, layout_override)
    /\ pc' = "done"
    /\ UNCHANGED <<tierVars, rollupVars, processVars, quoteVars, layout_sheet,
                   layout_part, layout_override, candidate_sheets, sheet_rows,
                   recommended_row, cartVars, templateVars>>

NextLayout == ComputeSheetLayout

SpecLayout == InitLayout /\ [][NextLayout]_vars

(* ------------------- specification: sheet selection --------------------- *)
InitSheet ==
    /\ pc = "call"
    /\ tiers = <<>> /\ multiplier = One /\ matched_tier = <<>>
    /\ qty \in QuoteQtys
    /\ IdleRollup
    /\ IdleProcess
    /\ IdleQuote
    /\ layout_sheet = NoSheet
    /\ layout_part \in SheetParts
    /\ layout_override = <<>>
    /\ layout = NoLayout
    /\ candidate_sheets \in SeqsUpTo(SheetOptions, MaxSheets)
    /\ sheet_rows = <<>>
    /\ recommended_row = <<>>
    /\ IdleCart
    /\ IdleTemplate

EvaluateSheetOptions ==
    /\ pc = "call"
    /\ \E ev \in {evaluate_sheet_options(candidate_sheets, layout_part, qty)} :
           /\ sheet_rows' = ev[1]
           /\ recommended_row' = ev[2]
    /\ pc' = "done"
    /\ UNCHANGED <<tierVars, rollupVars, processVars, quoteVars, layout_sheet,
                   layout_part, layout_override, layout, candidate_sheets, cartVars, templateVars>>

NextSheet == EvaluateSheetOptions

SpecSheet == InitSheet /\ [][NextSheet]_vars

(* ---------------- specification: the interactive session ---------------- *)
\* Every interaction with the page re-runs main() and with it
\* render_quote_tab; an action below is one such run of the script.
InitSession ==
    /\ pc = "call"
    /\ qty = 1
    /\ tiers = <<>> /\ multiplier = One /\ matched_tier = <<>>
    /\ IdleRollup
    /\ IdleProcess
    /\ IdleQuote
    /\ IdleSheet
    /\ quote_lines = <<>>
    /\ IdleTemplate

\* mutant: the bucket totals of the previous run are carried into the BOM loop
RunQuoteCarryOver(prod, q, par, ts, ovs) ==
    \E quote \in {QuoteOfAcc(BomLoop([EmptyAcc EXCEPT
                                          !.material_total = totals.material_total,
                                          !.process_total = totals.process_total],
                                      1, prod, q, ovs), q, par, ts)} :
        /\ bom_rows' = quote.bom_rows
        /\ process_breakdown' = quote.process_breakdown
        /\ alternatives_export' = quote.alternatives_export
        /\ totals' = quote.totals
        /\ summary' = quote.summary
        /\ multiplier' = quote.summary.multiplier
        /\ matched_tier' = quote.summary.matched_tier
        /\ warnings' = quote.warnings
        /\ infos' = quote.infos

\* lines 386-673: the calculation of one run; its locals are rebuilt from the
\* widget values in every run
RunQuote(prod, q, par, ts, ovs) ==
    \E quote \in {QuoteOf(prod, q, par, ts, ovs)} :
        /\ bom_rows' = quote.bom_rows
        /\ process_breakdown' = quote.process_breakdown
        /\ alternatives_export' = quote.alternatives_export
        /\ totals' = quote.totals
        /\ summary' = quote.summary
        /\ multiplier' = quote.summary.multiplier
        /\ matched_tier' = quote.summary.matched_tier
        /\ warnings' = quote.warnings
        /\ infos' = quote.infos

\* lines 676-695: the cart line built from the run's results
CartLine(line_id, prod, q, fig) ==
    [line_id |-> line_id,
     sku |-> prod.sku,
     qty |-> q,
     unit_price |-> fig.unit_price,
     line_total |-> fig.final_price_total,
     cost_total |-> fig.total_cost]

\* a run triggered by the page load or by a changed input widget
Rerun ==
    /\ \E prod \in SessionProducts, q \in SessionQtys :
           \E ovs \in SessionOverrides(prod, q), st \in SessionSettings :
               /\ product' = prod
               /\ qty' = q
               /\ params' = st.params
               /\ tiers' = st.tiers
               /\ overrides' = ovs
               /\ RunQuote(prod, q, st.params, st.tiers, ovs)
    /\ pc' = "done"
    /\ UNCHANGED <<processVars, sheetVars, templateVars, cartVars>>

\* a run triggered by the add-to-cart button (lines 675-697)
AddToCart ==
    /\ pc = "done"
    /\ Len(quote_lines) < MaxCart
    /\ RunQuote(product, qty, params, tiers, overrides)
    /\ quote_lines' = Append(quote_lines,
                             CartLine(Len(quote_lines) + 1, product, qty, summary'))
    /\ UNCHANGED <<pc, tiers, qty, params, processVars, product, overrides, sheetVars, templateVars>>

\* [l for l in quote_lines if l["line_id"] != selected_line]
WithoutLineId(lines, selected_line) ==
    SelectSeq(lines, LAMBDA l : l.line_id # selected_line)

\* a run triggered by the delete button (lines 786-793); the select box
\* offers the line ids of the cart
DeleteLine ==
    /\ pc = "done"
    /\ \E i \in 1..Len(quote_lines) :
           quote_lines' = WithoutLineId(quote_lines, quote_lines[i].line_id)
    /\ RunQuote(product, qty, params, tiers, overrides)
    /\ UNCHANGED <<pc, tiers, qty, params, processVars, product, overrides, sheetVars, templateVars>>

\* a run triggered by the clear button of main() (lines 861-865)
ClearCart ==
    /\ pc = "done"
    /\ quote_lines' = <<>>
    /\ RunQuote(product, qty, params, tiers, overrides)
    /\ UNCHANGED <<pc, tiers, qty, params, processVars, product, overrides, sheetVars, templateVars>>

NextSession == Rerun \/ AddToCart \/ DeleteLine \/ ClearCart

SpecSession == InitSession /\ [][NextSession]_vars

(* ------------------------------ claims ---------------------------------- *)
TierSet == {tiers[i] : i \in 1..Len(tiers)}
ContainingTiers == {t \in TierSet : TierContains(t, qty)}

\* C1: when some tier's range contains qty, find_multiplier returns a
\* containing tier whose min_qty is the greatest among the containing tiers,
\* together with that tier's multiplier.
C1_GreatestContainingTier ==
    (pc = "done" /\ ContainingTiers # {}) =>
        /\ Len(matched_tier) = 1
        /\ matched_tier[1] \in ContainingTiers
        /\ \A t \in ContainingTiers : t.min_qty <= matched_tier[1].min_qty
        /\ multiplier = matched_tier[1].multiplier

\* two containing tiers with different lower bounds and different multipliers
C1_Witness ==
    /\ pc = "done"
    /\ \E t, u \in ContainingTiers :
          t.min_qty < u.min_qty /\ t.multiplier # u.multiplier
    /\ Len(matched_tier) = 1

\* the worked example of C1: tiers 1..49 x1.0 and 50.. x0.9
C1_Example ==
    (/\ pc = "done"
     /\ tiers = << [min_qty |-> 1, max_qty |-> <<49>>, multiplier |-> One],
                   [min_qty |-> 50, max_qty |-> <<>>, multiplier |-> R(9, 10)] >>)
    => /\ (qty = 50 => multiplier = R(9, 10))
       /\ (qty = 49 => multiplier = One)
       /\ (qty = 0 => multiplier = One)

\* C2: find_multiplier always produces a multiplier: with no containing tier
\* it returns a tier of smallest min_qty (and its multiplier); with an empty
\* tier list it returns 1.0 and no tier.
C2_FallbackAlwaysProduces ==
    pc = "done" =>
        /\ (tiers = <<>> => multiplier = One /\ matched_tier = <<>>)
        /\ (tiers # <<>> /\ ContainingTiers = {} =>
               /\ Len(matched_tier) = 1
               /\ matched_tier[1] \in TierSet
               /\ \A t \in TierSet : matched_tier[1].min_qty <= t.min_qty
               /\ multiplier = matched_tier[1].multiplier)
        /\ (tiers # <<>> => Len(matched_tier) = 1 /\ multiplier = matched_tier[1].multiplier)

\* qty in a gap between two tiers, fallback to the lower one
C2_Witness ==
    /\ pc = "done"
    /\ Len(tiers) = 2
    /\ ContainingTiers = {}
    /\ \E t, u \in TierSet :
          /\ t.min_qty < u.min_qty
          /\ t.max_qty # <<>> /\ t.max_qty[1] < qty /\ qty < u.min_qty
          /\ matched_tier = <<t>>

(* --------------------------- rollup claims ------------------------------ *)
BucketSum ==
    RAdd(totals.material_total,
         RAdd(totals.process_total,
              RAdd(totals.purchased_total,
                   RAdd(totals.packaging_total, params.shipping_per_order))))

RollupChainHolds ==
    /\ summary.subtotal = BucketSum
    /\ summary.overhead = RMul(summary.subtotal, params.overhead_pct)
    /\ summary.pre_tax = RAdd(summary.subtotal, summary.overhead)
    /\ summary.tax = RMul(summary.pre_tax, params.tax_pct)
    /\ summary.total_cost = RAdd(summary.pre_tax, summary.tax)

RollupExampleInput ==
    /\ totals = [material_total |-> I(1000), process_total |-> I(200),
                 purchased_total |-> Zero, packaging_total |-> I(50)]
    /\ params.shipping_per_order = I(120)
    /\ params.overhead_pct = R(5, 100)
    /\ params.tax_pct = R(13, 100)

\* C3 as stated: the rollup chain, with the example giving tax = 186.705 and
\* totalCost = 1625.205.
C3_AsStated ==
    pc = "done" =>
        /\ RollupChainHolds
        /\ (RollupExampleInput =>
               /\ summary.subtotal = I(1370)
               /\ summary.overhead = R(685, 10)
               /\ summary.pre_tax = R(14385, 10)
               /\ summary.tax = R(186705, 1000)
               /\ summary.total_cost = R(1625205, 1000))

\* C3 (amended): the rollup chain holds for every combination of bucket
\* totals and percentages; the example gives subtotal = 1370, overhead = 68.5,
\* preTax = 1438.5, tax = 187.005 and totalCost = 1625.505.
C3_RollupChain ==
    pc = "done" =>
        /\ RollupChainHolds
        /\ (RollupExampleInput =>
               /\ summary.subtotal = I(1370)
               /\ summary.overhead = R(685, 10)
               /\ summary.pre_tax = R(14385, 10)
               /\ summary.tax = R(187005, 1000)
               /\ summary.total_cost = R(1625505, 1000))

C3_Witness ==
    /\ pc = "done"
    /\ RollupExampleInput
    /\ summary.total_cost = R(1625505, 1000)

\* C4: in gross_margin mode the price before the tier multiplier is
\* totalCost / (1 - marginPct) when marginPct < 1 and totalCost when
\* marginPct >= 1, and a division is only ever evaluated with a positive
\* divisor; in markup mode it is totalCost * (1 + marginPct).
C4_PricingModeBranch ==
    pc = "done" =>
        /\ (params.pricing_mode = "gross_margin" /\ RLt(params.margin_pct, One) =>
               RMul(summary.price_before_tier, RSub(One, params.margin_pct))
                   = summary.total_cost)
        /\ (params.pricing_mode = "gross_margin" /\ RLe(One, params.margin_pct) =>
               summary.price_before_tier = summary.total_cost)
        /\ (params.pricing_mode = "markup" =>
               summary.price_before_tier =
                   RAdd(summary.total_cost, RMul(summary.total_cost, params.margin_pct)))
        /\ (summary.margin_divisor # <<>> => RLt(Zero, summary.margin_divisor[1]))

\* the clamp acts: gross margin above 100% on a positive cost
C4_Witness ==
    /\ pc = "done"
    /\ params.pricing_mode = "gross_margin"
    /\ RLt(One, params.margin_pct)
    /\ RLt(Zero, summary.total_cost)
    /\ summary.price_before_tier = summary.total_cost
    /\ summary.margin_divisor = <<>>

OtherMode == IF params.pricing_mode = "markup" THEN "gross_margin" ELSE "markup"

\* C5 as stated: for every totalCost and every marginPct > 0 the markup price
\* and the gross_margin price differ.
C5_AsStated ==
    (pc = "done" /\ RLt(Zero, params.margin_pct)) =>
        summary.price_before_tier #
            PriceFromCost(summary.total_cost, params.margin_pct, OtherMode).price

\* C5 (amended): for the same totalCost and marginPct the markup price and
\* the gross_margin price differ whenever marginPct > 0 and totalCost is not
\* zero (marginPct >= 1 included).
C5_ModesDiffer ==
    (pc = "done" /\ RLt(Zero, params.margin_pct) /\ summary.total_cost # Zero) =>
        summary.price_before_tier #
            PriceFromCost(summary.total_cost, params.margin_pct, OtherMode).price

C5_Witness ==
    /\ pc = "done"
    /\ params.margin_pct = One
    /\ params.pricing_mode = "gross_margin"
    /\ RLt(Zero, summary.total_cost)
    /\ summary.price_before_tier = summary.total_cost

\* C6: the tier multiplier resolved for (tiers, qty) multiplies the price
\* once, after the margin/markup step; the cost totals do not carry it; and
\* unitPrice = finalPrice / qty, 0 when qty is 0.
C6_TierAppliedOnce ==
    pc = "done" =>
        /\ summary.multiplier =
               (IF summary.matched_tier = <<>> THEN One
                ELSE summary.matched_tier[1].multiplier)
        /\ (tiers # <<>> => summary.matched_tier # <<>>)
        /\ summary.final_price_total =
               RMul(summary.price_before_tier, summary.multiplier)
        /\ summary.total_cost =
               RMul(RMul(BucketSum, RAdd(One, params.overhead_pct)),
                    RAdd(One, params.tax_pct))
        /\ (qty # 0 => RMul(summary.unit_price, I(qty)) = summary.final_price_total)
        /\ (qty = 0 => summary.unit_price = Zero)

\* a discounting tier applied to a positive price
C6_Witness ==
    /\ pc = "done"
    /\ qty = 100
    /\ summary.multiplier = R(9, 10)
    /\ RLt(Zero, summary.price_before_tier)
    /\ RLt(summary.final_price_total, summary.price_before_tier)
    /\ RLt(Zero, summary.unit_price)

(* ------------------------ process cost claims --------------------------- *)
KnownCode(c) == c \in DOMAIN ProcessesMap
RowKnown(r) == KnownCode(r.process_code)
StepPriced(st) == st.enabled /\ KnownCode(st.process_code)
StepUnknownEnabled(st) == st.enabled /\ ~KnownCode(st.process_code)

RECURSIVE SumTotalCost(_)
SumTotalCost(rows) ==
    IF rows = <<>> THEN Zero
    ELSE RAdd(SumTotalCost(SubSeq(rows, 1, Len(rows) - 1)), rows[Len(rows)].total_cost)

C9_RowsFollowSteps ==
    (pc = "done" /\ engine = "app") =>
        LET priced == SelectSeq(process_steps, StepPriced)
            rows == SelectSeq(process_rows, RowKnown)
        IN  /\ Len(rows) = Len(priced)
            /\ \A i \in 1..Len(rows) :
                  LET meta == ProcessesMap[priced[i].process_code]
                  IN  /\ rows[i].process_code = priced[i].process_code
                      /\ rows[i].minutes_per_unit = priced[i].minutes_per_unit
                      /\ rows[i].qty = qty
                      /\ rows[i].runtime_cost =
                             RMul(priced[i].minutes_per_unit,
                                  RMul(meta.unit_rate_per_min, I(qty)))
                      /\ rows[i].total_cost = RAdd(rows[i].runtime_cost, meta.setup_cost)
            /\ process_cost = SumTotalCost(process_rows)

\* the same process code priced twice, with different minutes, qty > 1
C9_Witness ==
    /\ pc = "done"
    /\ engine = "app"
    /\ qty > 1
    /\ \E i, j \in 1..Len(process_rows) :
          /\ i < j
          /\ process_rows[i].process_code = "CUT"
          /\ process_rows[j].process_code = "CUT"
          /\ process_rows[i].minutes_per_unit = I(2)
          /\ process_rows[j].minutes_per_unit = R(1, 2)
          /\ RLt(process_rows[j].total_cost, process_rows[i].total_cost)

(* --------------------------- BOM loop claims ---------------------------- *)
LineKnown(line) ==
    \/ line.type = "part" /\ line.code \in DOMAIN PartsMap
    \/ line.type = "purchased" /\ line.code \in DOMAIN PurchasedMap
    \/ line.type = "packaging" /\ line.code \in DOMAIN PackagingMap
LineUnknown(line) == ~LineKnown(line)

NotFoundKind(line) ==
    IF line.type = "part" THEN "part_not_found"
    ELSE IF line.type = "purchased" THEN "purchased_not_found"
    ELSE "packaging_not_found"

IsNotFound(w) ==
    w.kind \in {"part_not_found", "purchased_not_found", "packaging_not_found"}
IsOtherWarning(w) == ~IsNotFound(w)

KnownLines == SelectSeq(product.bom_lines, LineKnown)
UnknownLines == SelectSeq(product.bom_lines, LineUnknown)

RemoveAt(seq, i) == SubSeq(seq, 1, i - 1) \o SubSeq(seq, i + 1, Len(seq))

\* the quote of the same product without its i-th BOM line, every remaining
\* line keeping its own override
QuoteWithoutLine(i) ==
    QuoteOf([product EXCEPT !.bom_lines = RemoveAt(@, i)], qty, params, tiers,
            RemoveAt(overrides, i))

SameQuoteButOneWarning(other) ==
    /\ other.totals = totals
    /\ other.summary = summary
    /\ other.bom_rows = bom_rows
    /\ other.process_breakdown = process_breakdown
    /\ other.alternatives_export = alternatives_export
    /\ Len(other.warnings) + 1 = Len(warnings)
    /\ SelectSeq(other.warnings, IsOtherWarning) = SelectSeq(warnings, IsOtherWarning)

\* C7: a BOM line whose code is not in its catalog produces exactly one
\* warning (naming its code), no BOM row and no process row and adds nothing
\* to the four totals, and the rest of the quote is what the quote of the
\* product without that line is.
C7_FailSoftLineExclusion ==
    pc = "done" =>
        /\ SelectSeq(warnings, IsNotFound) =
               [k \in 1..Len(UnknownLines) |->
                   [kind |-> NotFoundKind(UnknownLines[k]), code |-> UnknownLines[k].code]]
        /\ Len(bom_rows) = Len(KnownLines)
        /\ \A k \in 1..Len(bom_rows) :
               /\ bom_rows[k].line_type = KnownLines[k].type
               /\ bom_rows[k].code = KnownLines[k].code
        /\ \A i \in 1..Len(product.bom_lines) :
               LineUnknown(product.bom_lines[i]) =>
                   SameQuoteButOneWarning(QuoteWithoutLine(i))

\* an unknown line in front of a line that is priced
C7_Witness ==
    /\ pc = "done"
    /\ Len(product.bom_lines) = 2
    /\ LineUnknown(product.bom_lines[1])
    /\ LineKnown(product.bom_lines[2])
    /\ Len(bom_rows) = 1
    /\ RLt(Zero, bom_rows[1].line_total)
    /\ Len(SelectSeq(warnings, IsNotFound)) = 1

PartQtyOf(line) == RCeil(RMul(I(qty), GetOr(line.qty_per_unit, One)))

\* the sheet of a part line's BOM row has no layout capacity for the part
ZeroCapacity(line, spec) ==
    LET part == PartsMap[line.code]
        row == FirstWithSpec(LineRows(line, qty), spec)
    IN  compute_sheet_layout(row.sheet_option, part, PartQtyOf(line), <<>>).raw_count = 0

\* C10: a sheet configuration with zero layout capacity (rawCount = 0) that
\* a part line is priced on is reported and contributes zero material cost.
C10_ZeroCapacityUnpriced ==
    (pc = "done" /\ Len(bom_rows) = Len(KnownLines)) =>
        \A k \in 1..Len(bom_rows) :
            (/\ KnownLines[k].type = "part"
             /\ bom_rows[k].sheet_spec # <<>>
             /\ ZeroCapacity(KnownLines[k], bom_rows[k].sheet_spec[1]))
            => /\ bom_rows[k].material_cost = Zero
               /\ \E w \in 1..Len(warnings) : warnings[w].code = KnownLines[k].code

(* ------------------------- part line claims ----------------------------- *)
PartOf(line) == PartsMap[line.code]
MaterialOfLine(line) == MaterialOf(MaterialsMap, PartOf(line).material_code)

\* a part line found in the catalog whose material is by_sheet with an empty
\* sheet-option list
NoSheetOptions(line) ==
    /\ line.type = "part"
    /\ line.code \in DOMAIN PartsMap
    /\ MaterialOfLine(line).pricing_mode = "by_sheet"
    /\ MaterialOfLine(line).sheet_options = <<>>

IsNoSheetOptionsWarning(w) == w.kind = "no_sheet_options"

RECURSIVE SumProcessCost(_)
SumProcessCost(rows) ==
    IF rows = <<>> THEN Zero
    ELSE RAdd(SumProcessCost(SubSeq(rows, 1, Len(rows) - 1)), rows[Len(rows)].process_cost)

\* C11: for a part whose material is by_sheet with an empty sheet-option
\* list, evaluate_sheet_options returns an empty ranking and no
\* recommendation, the part line gets material cost 0 with one warning naming
\* the line, and its BOM row is still emitted with the process cost of its
\* steps, which is included in process_total.
C11_NoSheetOptionsUnpriced ==
    (pc = "done" /\ Len(bom_rows) = Len(KnownLines)) =>
        /\ SelectSeq(warnings, IsNoSheetOptionsWarning) =
               [k \in 1..Len(SelectSeq(product.bom_lines, NoSheetOptions)) |->
                   [kind |-> "no_sheet_options",
                    code |-> SelectSeq(product.bom_lines, NoSheetOptions)[k].code]]
        /\ totals.process_total = SumProcessCost(bom_rows)
        /\ \A k \in 1..Len(bom_rows) :
               NoSheetOptions(KnownLines[k]) =>
                   /\ evaluate_sheet_options(MaterialOfLine(KnownLines[k]).sheet_options,
                                             PartOf(KnownLines[k]),
                                             PartQtyOf(KnownLines[k])) = <<<<>>, <<>>>>
                   /\ bom_rows[k].material_cost = Zero
                   /\ bom_rows[k].sheet_spec = <<>>
                   /\ bom_rows[k].process_cost =
                          compute_process_costs(PartOf(KnownLines[k]).process_steps,
                                                ProcessesMap, PartQtyOf(KnownLines[k]),
                                                KnownLines[k].code)[1]
                   /\ bom_rows[k].line_total = bom_rows[k].process_cost

\* a part without sheet options, with a positive process cost, next to a
\* part that is priced on a sheet
C11_Witness ==
    /\ pc = "done"
    /\ Len(product.bom_lines) = 2
    /\ NoSheetOptions(product.bom_lines[1])
    /\ product.bom_lines[2].type = "part"
    /\ Len(bom_rows) = 2
    /\ bom_rows[1].material_cost = Zero
    /\ RLt(Zero, bom_rows[1].process_cost)
    /\ RLt(Zero, bom_rows[2].material_cost)
    /\ totals.process_total = RAdd(bom_rows[1].process_cost, bom_rows[2].process_cost)
    /\ Len(SelectSeq(warnings, IsNoSheetOptionsWarning)) = 1

\* a part line found in the catalog whose material_code is not in the
\* material catalog
UnknownMaterial(line) ==
    /\ line.type = "part"
    /\ line.code \in DOMAIN PartsMap
    /\ PartOf(line).material_code \notin DOMAIN MaterialsMap

\* a part line found in the catalog with an enabled step whose process_code
\* is not in the process catalog
HasUnknownStep(line) ==
    /\ line.type = "part"
    /\ line.code \in DOMAIN PartsMap
    /\ \E i \in 1..Len(PartOf(line).process_steps) :
           /\ PartOf(line).process_steps[i].enabled
           /\ PartOf(line).process_steps[i].process_code \notin DOMAIN ProcessesMap

\* C12: a process step whose process_code is not in the process catalog and
\* a part whose material_code is not in the material catalog are each
\* reported by a warning naming the item, and the run completes with the
\* item's BOM row.
C12_DegradedCasesWarn ==
    (pc = "done" /\ Len(bom_rows) = Len(KnownLines)) =>
        \A k \in 1..Len(bom_rows) :
            (UnknownMaterial(KnownLines[k]) \/ HasUnknownStep(KnownLines[k]))
            => \E w \in 1..Len(warnings) :
                   /\ warnings[w].kind # "no_process_costs"
                   /\ warnings[w].code = KnownLines[k].code

(* ------------------------ sheet selection claims ------------------------ *)
\* |option.thickness - part.thickness|
AbsThicknessGap(opt) ==
    IF RLt(opt.thickness_mm, layout_part.thickness_mm)
    THEN RSub(layout_part.thickness_mm, opt.thickness_mm)
    ELSE RSub(opt.thickness_mm, layout_part.thickness_mm)

\* the option is tied for the minimum absolute thickness difference
ClosestThickness(opt) ==
    \A i \in 1..Len(candidate_sheets) :
        RLe(AbsThicknessGap(opt), AbsThicknessGap(candidate_sheets[i]))

KeptSheets == SelectSeq(candidate_sheets, ClosestThickness)

CountIn(seq, x) == Cardinality({i \in 1..Len(seq) : seq[i] = x})

RowOptions == [i \in 1..Len(sheet_rows) |-> sheet_rows[i].sheet_option]

\* C13: evaluate_sheet_options keeps exactly the options tied for the
\* minimum absolute thickness difference (every tied option, as often as it
\* is listed), prices each as sheets_needed * sheet_price with the layout
\* without override, returns the rows in ascending order of material cost,
\* and recommends the first row, so that no kept candidate is cheaper than
\* the recommendation.
C13_SheetSelection ==
    pc = "done" =>
        /\ Len(sheet_rows) = Len(KeptSheets)
        /\ \A i \in 1..Len(candidate_sheets) :
               CountIn(RowOptions, candidate_sheets[i]) =
                   CountIn(KeptSheets, candidate_sheets[i])
        /\ \A i \in 1..Len(sheet_rows) :
               /\ sheet_rows[i].calc =
                      compute_sheet_layout(sheet_rows[i].sheet_option, layout_part, qty, <<>>)
               /\ sheet_rows[i].sheets_needed = sheet_rows[i].calc.sheets_needed
               /\ sheet_rows[i].pieces_per_sheet = sheet_rows[i].calc.pieces_per_sheet
               /\ sheet_rows[i].material_cost =
                      RMul(I(sheet_rows[i].sheets_needed),
                           sheet_rows[i].sheet_option.sheet_price)
        /\ \A i, j \in 1..Len(sheet_rows) :
               i < j => RLe(sheet_rows[i].material_cost, sheet_rows[j].material_cost)
        /\ recommended_row = IF sheet_rows = <<>> THEN <<>> ELSE <<sheet_rows[1]>>
        /\ \A i \in 1..Len(sheet_rows) :
               RLe(recommended_row[1].material_cost, sheet_rows[i].material_cost)

\* three options, one dropped by the thickness filter, two tied ones kept
\* with different costs, the cheaper one listed last
C13_Witness ==
    /\ pc = "done"
    /\ Len(candidate_sheets) = 3
    /\ Len(sheet_rows) = 2
    /\ ~ClosestThickness(candidate_sheets[1])
    /\ RLt(sheet_rows[1].material_cost, sheet_rows[2].material_cost)
    /\ recommended_row = <<sheet_rows[1]>>
    /\ sheet_rows[1].sheet_option = candidate_sheets[3]

(* --------------------------- layout claims ------------------------------ *)
PositiveOverride == layout_override # <<>> /\ layout_override[1] > 0

\* C14: for every sheet option, part, qty >= 0 and override the layout has
\* pieces_per_sheet_calc >= 1 and pieces_per_sheet >= 1; a positive override
\* replaces pieces_per_sheet while pieces_per_sheet_calc keeps the calculated
\* value, a missing, zero or negative override is ignored, and
\* sheets_needed = ceil(qty / pieces_per_sheet).
C14_PiecesAndSheets ==
    pc = "done" =>
        /\ layout.pieces_per_sheet_calc >= 1
        /\ layout.pieces_per_sheet >= 1
        /\ layout.pieces_per_sheet_calc =
               compute_sheet_layout(layout_sheet, layout_part, qty, <<>>).pieces_per_sheet
        /\ layout.pieces_per_sheet =
               IF PositiveOverride THEN layout_override[1]
               ELSE layout.pieces_per_sheet_calc
        /\ layout.sheets_needed * layout.pieces_per_sheet >= qty
        /\ (layout.sheets_needed - 1) * layout.pieces_per_sheet < qty
        /\ layout.sheets_needed >= 0

\* an override of 3 pieces replaces a larger calculated count, and 7 pieces
\* need 3 sheets
C14_Witness ==
    /\ pc = "done"
    /\ layout_override = <<3>>
    /\ layout.pieces_per_sheet_calc > 3
    /\ layout.pieces_per_sheet = 3
    /\ qty = 7
    /\ layout.sheets_needed = 3

UsableL == IF layout_sheet.sheet_length_mm - 2 * layout_part.edge_margin_mm > 0
           THEN layout_sheet.sheet_length_mm - 2 * layout_part.edge_margin_mm ELSE 0
UsableW == IF layout_sheet.sheet_width_mm - 2 * layout_part.edge_margin_mm > 0
           THEN layout_sheet.sheet_width_mm - 2 * layout_part.edge_margin_mm ELSE 0
PitchL == layout_part.blank_length_mm + layout_part.kerf_mm
PitchW == layout_part.blank_width_mm + layout_part.kerf_mm

\* n = floor(usable / pitch) for pitch > 0
IsFloorOf(n, usable, pitch) == n * pitch <= usable /\ usable < (n + 1) * pitch

\* count = floor(usable_l / pitch_l) * floor(usable_w / pitch_w), and 0 when
\* a pitch is not positive
IsGridCount(count, usable_l, pitch_l, usable_w, pitch_w) ==
    IF pitch_l > 0 /\ pitch_w > 0
    THEN \E nx \in 0..usable_l, ny \in 0..usable_w :
            /\ IsFloorOf(nx, usable_l, pitch_l)
            /\ IsFloorOf(ny, usable_w, pitch_w)
            /\ count = nx * ny
    ELSE count = 0

\* C15: count_a is floor(usableL/pitchL) * floor(usableW/pitchW), count_b is
\* the same with the pitches swapped when rotation is allowed and 0 when it
\* is not, an orientation with a pitch <= 0 counts 0, and raw_count is the
\* larger of the two.
C15_GridCounts ==
    pc = "done" =>
        /\ IsGridCount(layout.count_a, UsableL, PitchL, UsableW, PitchW)
        /\ IF layout_part.allow_rotate
           THEN IsGridCount(layout.count_b, UsableL, PitchW, UsableW, PitchL)
           ELSE layout.count_b = 0
        /\ layout.raw_count >= layout.count_a
        /\ layout.raw_count >= layout.count_b
        /\ layout.raw_count \in {layout.count_a, layout.count_b}

\* rotation gives the larger count: a 55 x 10 blank on a 60 x 100 sheet
C15_Witness ==
    /\ pc = "done"
    /\ layout_part.allow_rotate
    /\ PitchL > 0 /\ PitchW > 0
    /\ layout.count_a > 0
    /\ layout.count_b > layout.count_a
    /\ layout.raw_count = layout.count_b

\* a pitch of 0 (no blank length, no kerf) counts 0 in both orientations
C15_WitnessZeroPitch ==
    /\ pc = "done"
    /\ PitchL = 0 /\ PitchW > 0
    /\ UsableL > 0 /\ UsableW > 0
    /\ layout.raw_count = 0

\* pieces_per_sheet_calc of the same sheet and part with nest efficiency e
PiecesCalcWith(e) ==
    compute_sheet_layout(layout_sheet, [layout_part EXCEPT !.nest_efficiency = e],
                         qty, layout_override).pieces_per_sheet_calc

\* C16: for a fixed sheet option and fixed part dimensions, a nest
\* efficiency e1 <= e2 gives a pieces_per_sheet_calc that is <= the one
\* computed with e2.
C16_EfficiencyMonotone ==
    pc = "done" =>
        \A e \in NestEfficiencies :
            /\ RLe(e, layout_part.nest_efficiency) =>
                   PiecesCalcWith(e) <= layout.pieces_per_sheet_calc
            /\ RLe(layout_part.nest_efficiency, e) =>
                   layout.pieces_per_sheet_calc <= PiecesCalcWith(e)

\* a lower efficiency that gives strictly fewer pieces
C16_Witness ==
    /\ pc = "done"
    /\ layout.raw_count > 1
    /\ layout_part.nest_efficiency = R(85, 100)
    /\ PiecesCalcWith(R(1, 2)) < layout.pieces_per_sheet_calc
    /\ PiecesCalcWith(R(1, 2)) > 1

(* --------------------------- session claims ----------------------------- *)
\* the figures a first run of a new session computes for the current inputs
FreshQuote == QuoteOf(product, qty, params, tiers, overrides)

C18_DistinctLineIds ==
    \A i, j \in 1..Len(quote_lines) :
        i # j => quote_lines[i].line_id # quote_lines[j].line_id

(* --------------------- override and part line claims -------------------- *)
\* the indexes of the BOM lines found in their catalogs, in order: the k-th
\* BOM row belongs to line KnownIndexes[k]
KnownIndexes ==
    SelectSeq([i \in 1..Len(product.bom_lines) |-> i],
              LAMBDA i : LineKnown(product.bom_lines[i]))

CeilDiv(a, b) == -((-a) \div b)

RECURSIVE SumMaterialCost(_)
SumMaterialCost(rows) ==
    IF rows = <<>> THEN Zero
    ELSE RAdd(SumMaterialCost(SubSeq(rows, 1, Len(rows) - 1)), rows[Len(rows)].material_cost)

\* the same run with every override switched off
QuoteWithoutOverrides ==
    QuoteOf(product, qty, params, tiers, [i \in 1..Len(overrides) |-> NoOverride])

\* the material cost of a part line priced on the ranked rows
OverrideCost(rows, part_qty, override) ==
    IF override.enabled
    THEN RMul(I(CeilDiv(part_qty, GetOr(override.pieces,
                                        rows[override.selected].pieces_per_sheet))),
              rows[override.selected].sheet_price)
    ELSE rows[1].material_cost

\* C19: with an override enabled for a part line its material cost is
\* ceil(partQty / overridePieces) * sheetPrice of the pinned row and that
\* cost is what enters material_total; the ranked alternative rows are the
\* ones of the run without overrides; with the override disabled the line is
\* priced on the recommended row.
C19_OverrideFrame ==
    (pc = "done" /\ Len(bom_rows) = Len(KnownLines)) =>
        /\ alternatives_export = QuoteWithoutOverrides.alternatives_export
        /\ totals.material_total = SumMaterialCost(bom_rows)
        /\ \A k \in 1..Len(bom_rows) :
               (KnownLines[k].type = "part" /\ LineRows(KnownLines[k], qty) # <<>>) =>
                   /\ bom_rows[k].material_cost =
                          OverrideCost(LineRows(KnownLines[k], qty),
                                       PartQtyOf(KnownLines[k]),
                                       overrides[KnownIndexes[k]])
                   /\ bom_rows[k].sheet_spec =
                          <<LineRows(KnownLines[k], qty)[
                                IF overrides[KnownIndexes[k]].enabled
                                THEN overrides[KnownIndexes[k]].selected ELSE 1].sheet_spec>>

\* the second line is pinned to the second ranked row with 3 pieces per
\* sheet, at a cost other than the recommended one
C19_Witness ==
    /\ pc = "done"
    /\ Len(product.bom_lines) = 2
    /\ LineUnknown(product.bom_lines[1])
    /\ overrides[2] = [enabled |-> TRUE, selected |-> 2, pieces |-> <<3>>]
    /\ Len(bom_rows) = 1
    /\ bom_rows[1].material_cost # LineRows(product.bom_lines[2], qty)[1].material_cost
    /\ bom_rows[1].pieces_per_sheet = <<3>>
    /\ Len(alternatives_export) = 2

\* ceil(qty * qty_per_unit), qty_per_unit defaulting to 1
CeilPartQty(line) ==
    CeilDiv(qty * GetOr(line.qty_per_unit, One).n, GetOr(line.qty_per_unit, One).d)

\* the process rows of the part lines found in the catalog, in BOM order,
\* each computed over the part's steps with the line's part quantity
RECURSIVE PartProcessRows(_)
PartProcessRows(lines) ==
    IF lines = <<>> THEN <<>>
    ELSE PartProcessRows(SubSeq(lines, 1, Len(lines) - 1)) \o
         (IF lines[Len(lines)].type = "part"
          THEN compute_process_costs(PartOf(lines[Len(lines)]).process_steps, ProcessesMap,
                                     CeilPartQty(lines[Len(lines)]),
                                     lines[Len(lines)].code)[2]
          ELSE <<>>)

\* C20: for a part line partQty = ceil(qty * qtyPerUnit); the process cost
\* is computed over the part's steps with partQty for by_sheet and by_weight
\* materials alike; the material cost is the selected sheet row's cost
\* (sheets needed times its sheet price) for a by_sheet material and 0 for a
\* by_weight material; lineTotal = materialCost + processCost and unit cost
\* = lineTotal / partQty, 0 when partQty is 0.
C20_PartLine ==
    (pc = "done" /\ Len(bom_rows) = Len(KnownLines)) =>
        /\ process_breakdown = PartProcessRows(KnownLines)
        /\ \A k \in 1..Len(bom_rows) :
               KnownLines[k].type = "part" =>
                   /\ bom_rows[k].qty_total = I(CeilPartQty(KnownLines[k]))
                   /\ bom_rows[k].process_cost =
                          compute_process_costs(PartOf(KnownLines[k]).process_steps,
                                                ProcessesMap, CeilPartQty(KnownLines[k]),
                                                KnownLines[k].code)[1]
                   /\ IF MaterialOfLine(KnownLines[k]).pricing_mode = "by_sheet"
                      THEN \/ /\ LineRows(KnownLines[k], qty) = <<>>
                              /\ bom_rows[k].material_cost = Zero
                           \/ /\ LineRows(KnownLines[k], qty) # <<>>
                              /\ bom_rows[k].sheet_spec # <<>>
                              /\ bom_rows[k].material_cost =
                                     RMul(I(bom_rows[k].sheets_needed[1]),
                                          FirstWithSpec(LineRows(KnownLines[k], qty),
                                                        bom_rows[k].sheet_spec[1]).sheet_price)
                      ELSE /\ bom_rows[k].material_cost = Zero
                           /\ bom_rows[k].sheet_spec = <<>>
                   /\ bom_rows[k].line_total =
                          RAdd(bom_rows[k].material_cost, bom_rows[k].process_cost)
                   /\ IF CeilPartQty(KnownLines[k]) = 0
                      THEN bom_rows[k].unit_cost = Zero
                      ELSE RMul(bom_rows[k].unit_cost, bom_rows[k].qty_total) =
                               bom_rows[k].line_total

\* a by_sheet part in half quantity (ceil(7 / 2) = 4) with material and
\* process cost, next to a part line of quantity 0 whose setup cost gives a
\* positive line total at unit cost 0
C20_Witness ==
    /\ pc = "done"
    /\ qty = 7
    /\ Len(bom_rows) = 2
    /\ bom_rows[1].line_type = "part"
    /\ bom_rows[1].qty_total = I(4)
    /\ RLt(Zero, bom_rows[1].material_cost)
    /\ RLt(Zero, bom_rows[1].process_cost)
    /\ RLt(bom_rows[1].unit_cost, bom_rows[1].line_total)
    /\ bom_rows[2].line_type = "part"
    /\ bom_rows[2].qty_total = Zero
    /\ RLt(Zero, bom_rows[2].line_total)
    /\ bom_rows[2].unit_cost = Zero

(* ------------------ purchased and packaging line claims ----------------- *)
\* the sum of the line totals of the BOM rows of one line type
RECURSIVE SumLineTotal(_, _)
SumLineTotal(rows, line_type) ==
    IF rows = <<>> THEN Zero
    ELSE RAdd(SumLineTotal(SubSeq(rows, 1, Len(rows) - 1), line_type),
              IF rows[Len(rows)].line_type = line_type
              THEN rows[Len(rows)].line_total ELSE Zero)

\* qty * line.qty_per_unit, qty_per_unit defaulting to 1
BaseQty(line) == RMul(I(qty), GetOr(line.qty_per_unit, One))

\* C21: for a purchased line baseQty = qty * line.qtyPerUnit; totalQty is
\* the larger of baseQty and the item's minimum order quantity when one is
\* set and baseQty otherwise, so it is never below the MOQ nor below
\* baseQty; lineTotal = totalQty * unitCost * (1 + wastePct), and the sum of
\* these line totals is purchased_total.
C21_PurchasedLine ==
    (pc = "done" /\ Len(bom_rows) = Len(KnownLines)) =>
        /\ totals.purchased_total = SumLineTotal(bom_rows, "purchased")
        /\ \A k \in 1..Len(bom_rows) :
               KnownLines[k].type = "purchased" =>
                   /\ bom_rows[k].line_type = "purchased"
                   /\ RLe(BaseQty(KnownLines[k]), bom_rows[k].qty_total)
                   /\ IF PurchasedMap[KnownLines[k].code].moq_qty # <<>>
                      THEN /\ RLe(PurchasedMap[KnownLines[k].code].moq_qty[1],
                                  bom_rows[k].qty_total)
                           /\ bom_rows[k].qty_total \in
                                  {BaseQty(KnownLines[k]),
                                   PurchasedMap[KnownLines[k].code].moq_qty[1]}
                      ELSE bom_rows[k].qty_total = BaseQty(KnownLines[k])
                   /\ bom_rows[k].line_total =
                          RMul(RMul(bom_rows[k].qty_total,
                                    PurchasedMap[KnownLines[k].code].unit_cost),
                               RAdd(One, PurchasedMap[KnownLines[k].code].waste_pct))

\* one line raised to the minimum order quantity of 10 (7 * 1/2 = 7/2), one
\* above it (7 * 2 = 14), both with waste
C21_Witness ==
    /\ pc = "done"
    /\ qty = 7
    /\ Len(bom_rows) = 2
    /\ bom_rows[1].line_type = "purchased"
    /\ BaseQty(product.bom_lines[1]) = R(7, 2)
    /\ bom_rows[1].qty_total = I(10)
    /\ bom_rows[2].line_type = "purchased"
    /\ bom_rows[2].qty_total = I(14)
    /\ RLt(RMul(I(14), bom_rows[2].unit_cost), bom_rows[2].line_total)
    /\ totals.purchased_total = RAdd(bom_rows[1].line_total, bom_rows[2].line_total)

\* the units per carton of a per_carton line: the rule's value, else the
\* product's, 0 when neither gives one
CartonSize(rule) ==
    IF rule.units_per_carton # <<>> /\ rule.units_per_carton[1] # 0
    THEN rule.units_per_carton[1]
    ELSE IF product.units_per_carton # <<>> THEN product.units_per_carton[1]
    ELSE 0

Cartons(rule) == IF CartonSize(rule) = 0 THEN 0 ELSE CeilDiv(qty, CartonSize(rule))

\* the quantity per unit of a per_unit line: the BOM line's own value when it
\* has one, else the rule's, else 1
PackQtyPerUnit(line, rule) ==
    IF line.qty_per_unit # <<>> THEN line.qty_per_unit[1]
    ELSE IF rule.qty_per_unit # <<>> THEN rule.qty_per_unit[1]
    ELSE One

\* C22: for a per_unit packaging rule totalQty = qty * qtyPerUnit (the
\* line's qty_per_unit, else the rule's) and lineTotal = totalQty * unitCost;
\* for a per_carton rule cartons = ceil(qty / unitsPerCarton) with the rule's
\* unitsPerCarton, else the product's, and 0 cartons when neither is
\* available, totalQty = cartons * qtyPerCarton and lineTotal = totalQty *
\* unitCost, whatever the line's own qty_per_unit; the sum of the line
\* totals is packaging_total.
C22_PackagingLine ==
    (pc = "done" /\ Len(bom_rows) = Len(KnownLines)) =>
        /\ totals.packaging_total = SumLineTotal(bom_rows, "packaging")
        /\ \A k \in 1..Len(bom_rows) :
               KnownLines[k].type = "packaging" =>
                   /\ bom_rows[k].line_type = "packaging"
                   /\ bom_rows[k].qty_total =
                          IF PackagingMap[KnownLines[k].code].type = "per_unit"
                          THEN RMul(I(qty), PackQtyPerUnit(KnownLines[k],
                                                PackagingMap[KnownLines[k].code]))
                          ELSE RMul(I(Cartons(PackagingMap[KnownLines[k].code])),
                                    GetOr(PackagingMap[KnownLines[k].code].qty_per_carton,
                                          One))
                   /\ bom_rows[k].line_total =
                          RMul(bom_rows[k].qty_total,
                               PackagingMap[KnownLines[k].code].unit_cost)

\* 7 units: a per_carton line with a qty_per_unit of 3 packed by the
\* product's 4 units per carton (2 cartons), and one packed by the rule's 2
\* units per carton, 2 per carton (4 cartons, 8 pieces)
C22_Witness ==
    /\ pc = "done"
    /\ qty = 7
    /\ product.units_per_carton = <<4>>
    /\ Len(bom_rows) = 2
    /\ product.bom_lines[1] = Line("packaging", "CTN", <<I(3)>>, FALSE)
    /\ bom_rows[1].qty_total = I(2)
    /\ bom_rows[1].line_total = I(10)
    /\ product.bom_lines[2].code = "BOX"
    /\ bom_rows[2].qty_total = I(8)
    /\ totals.packaging_total = I(42)

\* no units per carton anywhere: no carton, next to a per_unit line priced
\* with the line's own qty_per_unit instead of the rule's
C22_WitnessNoCarton ==
    /\ pc = "done"
    /\ qty = 3
    /\ product.units_per_carton \in {<<>>, <<0>>}
    /\ Len(bom_rows) = 2
    /\ product.bom_lines[1].code = "CTN"
    /\ bom_rows[1].qty_total = Zero
    /\ bom_rows[1].line_total = Zero
    /\ product.bom_lines[2] = Line("packaging", "BAG", <<I(3)>>, FALSE)
    /\ bom_rows[2].qty_total = I(9)
    /\ PackagingMap["BAG"].qty_per_unit = <<I(2)>>

(* ------------------------- optional flag claim -------------------------- *)
\* the product with the optional flag of its i-th BOM line flipped
FlipOptional(prod, i) ==
    [prod EXCEPT !.bom_lines[i].optional = ~@]

\* the BOM rows without their reported optional flag
WithoutOptional(rows) ==
    [k \in 1..Len(rows) |-> [rows[k] EXCEPT !.optional = FALSE]]

\* the quote of the same run on the product with line i flipped
FlippedQuote(i) == QuoteOf(FlipOptional(product, i), qty, params, tiers, overrides)

\* C23: flipping the optional flag of any BOM line leaves the four bucket
\* totals, total cost, final price and unit price unchanged, and the BOM
\* rows, process rows and alternatives differ at most in the reported flag,
\* which is the line's own.
C23_OptionalNoEffect ==
    (pc = "done" /\ Len(bom_rows) = Len(KnownLines)) =>
        /\ \A k \in 1..Len(bom_rows) : bom_rows[k].optional = KnownLines[k].optional
        /\ \A i \in 1..Len(product.bom_lines) :
               \A flipped \in {FlippedQuote(i)} :
                   /\ flipped.totals = totals
                   /\ flipped.summary = summary
                   /\ WithoutOptional(flipped.bom_rows) = WithoutOptional(bom_rows)
                   /\ flipped.process_breakdown = process_breakdown
                   /\ flipped.alternatives_export = alternatives_export
                   /\ LineKnown(product.bom_lines[i]) => flipped.bom_rows # bom_rows

\* an optional line with a positive cost in the totals next to a required one
C23_Witness ==
    /\ pc = "done"
    /\ Len(bom_rows) = 2
    /\ bom_rows[1].optional
    /\ RLt(Zero, bom_rows[1].line_total)
    /\ ~bom_rows[2].optional
    /\ RLt(Zero, bom_rows[2].line_total)
    /\ RLe(RAdd(bom_rows[1].line_total, bom_rows[2].line_total), summary.total_cost)

(* ------------------------ engine variant claim -------------------------- *)
\* the figures the two rollups share
SharedFigures(fig) ==
    [subtotal |-> fig.subtotal, overhead |-> fig.overhead, pre_tax |-> fig.pre_tax,
     tax |-> fig.tax, total_cost |-> fig.total_cost, multiplier |-> fig.multiplier,
     final_price_total |-> fig.final_price_total, unit_price |-> fig.unit_price]

\* bucket totals of the BOM-driven engine with the direct-cost sum of the
\* template-driven run: bucket by bucket, and all in the purchased bucket
BucketsLike(fig) ==
    { [material_total |-> fig.material_cost, process_total |-> fig.process_cost,
       purchased_total |-> Zero, packaging_total |-> fig.packaging_cost],
      [material_total |-> Zero, process_total |-> Zero,
       purchased_total |-> RAdd(RAdd(fig.material_cost, fig.process_cost),
                                fig.packaging_cost),
       packaging_total |-> Zero] }

\* C24: on equal direct-cost sums, shipping, percentages, pricing mode,
\* tiers and qty the rollup of app.py and calculate_quote of app_backup.py
\* give the same subtotal, overhead, tax, total cost, tier multiplier, final
\* price and unit price, and the two find_multiplier functions return the
\* same multiplier and tier for every tier list and qty.
C24_EnginesAgree ==
    pc = "done" =>
        IF engine = "app_backup"
        THEN /\ <<multiplier, matched_tier>> = find_multiplier(tiers, qty)
             /\ \A tot \in BucketsLike(summary) :
                    SharedFigures(QuoteRollup(tot, params, tiers, qty)) =
                        SharedFigures(summary)
        ELSE /\ <<multiplier, matched_tier>> = backup_find_multiplier(tiers, qty)
             /\ SharedFigures(BackupSummary(
                                  RAdd(totals.material_total, totals.purchased_total),
                                  totals.process_total, totals.packaging_total,
                                  params, tiers, qty)[1]) =
                    SharedFigures(summary)

\* a template-driven quote with material, process and packaging cost, priced
\* by gross margin, on two overlapping tiers of which the later one applies
C24_Witness ==
    /\ pc = "done"
    /\ engine = "app_backup"
    /\ Len(tiers) = 2
    /\ TierContains(tiers[1], qty) /\ TierContains(tiers[2], qty)
    /\ matched_tier = <<SortedByMinQty(tiers)[2]>>
    /\ multiplier # SortedByMinQty(tiers)[1].multiplier
    /\ RLt(Zero, summary.material_cost)
    /\ RLt(Zero, summary.process_cost)
    /\ RLt(Zero, summary.packaging_cost)
    /\ params.pricing_mode = "gross_margin"
    /\ RLt(summary.total_cost, summary.final_price_total)
====
